---- MODULE Spec2Model ----
(***************************************************************************)
(* Model of the concurrent TCP readiness prober of bow/wf:                 *)
(*   wait.SingleTCP  (one prober goroutine per target),                    *)
(*   wait.merge      (one forwarder goroutine per input, one closer),      *)
(*   wait.AllTCP     (the coordinating goroutine with the deadline timer), *)
(*   cmd.run         (the consumer of AllTCP's output channel).            *)
(* Every goroutine is a process with a program counter; a channel          *)
(* operation is one step.  An unbuffered channel is a rendezvous of its    *)
(* sender and its receiver.  Time is abstract: the deadline timer and the  *)
(* poll tickers may fire at any moment.                                    *)
(***************************************************************************)
EXTENDS Integers, Sequences, FiniteSets, TLC

\* Largest number of targets handed to AllTCP.
MaxTargets == 2

\* Largest number of targets in the timed specification.
MaxTimedTargets == 1

\* ParseTCPSpecs is given at most MaxAddrs addresses.
MaxAddrs == 2

\* The clock counts from 0 to MaxTime.
MaxTime == 3

\* fmtElapsedTime is given the durations within FmtSpan nanoseconds of the
\* limits of its cases.
FmtSpan == 12

\* The clock of the specification of the output order counts from 0 to
\* MaxOrderTime, and stops before the deadline.
MaxOrderTime == 1

\* AllTCP's waitTimeout, in clock units.
WaitTimeout == 2

\* Capacity of the channel a prober writes to: make(chan *TCPMessage, 2).
ChanCap == 2

VARIABLES
    n,            \* len(specs): the number of targets of this AllTCP call
    mode,         \* the consumer: "run" (cmd.run) or "box" (a draining reader)
    ppc,          \* prober i: position in SingleTCP's goroutine
    pmsg,         \* prober i: the message it is about to write
    tick,         \* prober i: a value is waiting in pollTicker.C
    ch,           \* prober i: content of its channel `out` (capacity ChanCap)
    chClosed,     \* prober i: its channel is closed
    fpc,          \* forwarder i: position in merge's forward
    fmsg,         \* forwarder i: the message it is sending to `merged`
    wg,           \* merge's sync.WaitGroup counter
    mpc,          \* merge's closing goroutine: "wait" or "done"
    mergedClosed, \* `merged` is closed
    cpc,          \* AllTCP's goroutine: position
    cmsg,         \* AllTCP's goroutine: the message it is sending to `out`
    timer,        \* the deadline timer: "armed", "fired", "taken", "stopped"
    cancelled,    \* cancel() was called: ctx.Done() is closed
    outClosed,    \* AllTCP's `out` is closed
    rpc,          \* consumer: "recv" or "done"
    exitCode,     \* run's return value, NoExit while it has not returned
    panicked,     \* a send on or a close of a closed channel, or a negative wg
    emitted,      \* history: the messages prober i wrote to its channel
    dialOk,       \* history: a connection attempt of prober i succeeded
    received,     \* history: the messages carried by AllTCP's `out`
    atFire,       \* history: what held at the moment the timer fired
    dialErr,      \* history: the definitive error a connection attempt of prober i returned
    now,          \* the clock: the value time.Now() returns
    startTime,    \* AllTCP's startTime
    startOf,      \* prober i: SingleTCP's startTime, each message's startTime
    listenAt,     \* target i: the time from which its listener accepts, Never if never
    emitTime,     \* history: the emitTime of each message of emitted[i]
    pmsgTime,     \* prober i: the emitTime of pmsg[i]
    synthTime,    \* the emitTime of the synthetic message, NoTime if there is none
    chTimes,      \* prober i: startTime and emitTime of each message of ch[i]
    fmsgTimes,    \* forwarder i: startTime and emitTime of fmsg[i]
    cmsgTimes,    \* AllTCP's goroutine: startTime and emitTime of cmsg
    receivedTimes, \* history: startTime and emitTime of each message of received
    rawAddrs,     \* run: the addresses given on the command line
    defaultPollFreq, \* run: the default poll frequency, in milliseconds
    specs,        \* run: the specs ParseTCPSpecs returned
    parseErr,     \* run: the error ParseTCPSpecs returned
    parseCalls,   \* history: the number of ParseTCPSpec calls ParseTCPSpecs made
    runpc,        \* run: "parse", "call", "wait" (in its range loop) or "returned"
    et,           \* fmtElapsedTime: its argument, in nanoseconds
    etString      \* fmtElapsedTime: the string it returned, empty before it returns

vars == << n, mode, ppc, pmsg, tick, ch, chClosed, fpc, fmsg, wg, mpc,
           mergedClosed, cpc, cmsg, timer, cancelled, outClosed, rpc,
           exitCode, panicked, emitted, dialOk, received, atFire, dialErr,
           now, startTime, startOf, listenAt, emitTime, pmsgTime, synthTime,
           chTimes, fmsgTimes, cmsgTimes, receivedTimes,
           rawAddrs, defaultPollFreq, specs, parseErr, parseCalls, runpc,
           et, etString >>

\* The clock and what is fixed when AllTCP is called.
clockVars == << now, startTime, startOf, listenAt >>

\* The startTime and emitTime fields of the messages.
stampVars == << emitTime, pmsgTime, synthTime,
                chTimes, fmsgTimes, cmsgTimes, receivedTimes >>

\* The locals of cmd.run before its range loop, and fmtElapsedTime's.
runVars == << rawAddrs, defaultPollFreq, specs, parseErr, parseCalls, runpc,
              et, etString >>

Targets == 1 .. n

\* A nil *TCPSpec: the message belongs to no target.
NilSpec == 0

NoExit == -1

----------------------------------------------------------------------------
\* Messages

NoMsg == [spec |-> NilSpec, status |-> "None", err |-> "nil", stringF |-> "none"]

NewTCPMessageStart(spec) ==
    [spec |-> spec, status |-> "Start", err |-> "nil", stringF |-> "default"]

NewTCPMessageReady(spec) ==
    [spec |-> spec, status |-> "Ready", err |-> "nil", stringF |-> "default"]

\* Mutant of NewTCPMessageFailed: the error is not stored.
NewTCPMessageFailed_NilErr(spec, err) ==
    [spec |-> spec, status |-> "Failed", err |-> "nil", stringF |-> "default"]

NewTCPMessageFailed(spec, err) ==
    [spec |-> spec, status |-> "Failed", err |-> err, stringF |-> "default"]

\* The outcomes of net.DialTimeout: success, or one of these errors.
\*   timeout: os.IsTimeout(err)
\*   refused: *net.OpError > *os.SyscallError > ECONNREFUSED
\*   unreach: *net.OpError > *os.SyscallError > another errno
\*   dns:     *net.OpError > *net.DNSError
DialErrs == {"timeout", "refused", "unreach", "dns"}
DialOutcomes == {"ok"} \cup DialErrs

\* Mutant of shouldWait: only an i/o timeout is a reason to wait.
shouldWait_TimeoutOnly(err) == err = "timeout"

shouldWait(err) ==
    IF err = "timeout" THEN TRUE
    ELSE IF err \in {"refused", "unreach"} THEN err = "refused"
    ELSE FALSE

\* ctx.Err() after cancel().
CtxErr == "canceled"

\* fmt.Errorf("reached timeout limit of %s", waitTimeout)
TimeoutErr == "deadline"

\* Mutant of checkConn: a definitive error is reported as one generic error.
checkConn_Masked(spec, outcome) ==
    IF outcome = "ok" THEN NewTCPMessageReady(spec)
    ELSE IF shouldWait(outcome) THEN NoMsg
    ELSE NewTCPMessageFailed(spec, "unreach")

checkConn(spec, outcome) ==
    IF outcome = "ok" THEN NewTCPMessageReady(spec)
    ELSE IF shouldWait(outcome) THEN NoMsg
    ELSE NewTCPMessageFailed(spec, outcome)

\* The switch on msg.Status() in AllTCP's goroutine.
setStringF(msg) ==
    [msg EXCEPT !.stringF =
        CASE msg.status = "Start" -> "start"
          [] msg.status = "Ready" -> "ready"
          [] msg.status = "Failed" -> "err"
          [] OTHER -> msg.stringF]

\* Mutant of timeoutMsg: the synthetic message refers to the first target.
timeoutMsg_FirstSpec ==
    [NewTCPMessageFailed(1, TimeoutErr) EXCEPT !.stringF = "err"]

\* The message of the timer case of AllTCP's goroutine.
timeoutMsg ==
    [NewTCPMessageFailed(NilSpec, TimeoutErr) EXCEPT !.stringF = "err"]

----------------------------------------------------------------------------
\* Time

\* No time.Time value: the field of a message that does not exist, or a
\* context without the start time key.
NoTime == -1

\* The listener of a target never accepts a connection.
Never == -2

\* The startTime and emitTime fields of a message (tcp.go, TCPMessage), and
\* those of no message.
Times(st, em) == [startTime |-> st, emitTime |-> em]

NoTimes == Times(NoTime, NoTime)

\* Mutant of StartTimeFromContext: the value of the context is ignored.
StartTimeFromContext_Now(ctxStart) == now

\* startTime, ok := ctx.Value(startTimeCtxKey).(time.Time)
\* if !ok { return time.Now() }; return startTime
StartTimeFromContext(ctxStart) ==
    IF ctxStart = NoTime THEN now ELSE ctxStart

\* No error: the nil error of the parser.
NoErr == [kind |-> "nil", arg |-> << >>]

----------------------------------------------------------------------------
\* Address parsing (ParseTCPSpec, ParseTCPSpecs).  A Go string is the sequence
\* of its characters; a time.Duration is a number of milliseconds.

Lower == << "a", "b", "c", "d", "e", "f", "g", "h", "i", "j", "k", "l", "m",
            "n", "o", "p", "q", "r", "s", "t", "u", "v", "w", "x", "y", "z" >>
Upper == << "A", "B", "C", "D", "E", "F", "G", "H", "I", "J", "K", "L", "M",
            "N", "O", "P", "Q", "R", "S", "T", "U", "V", "W", "X", "Y", "Z" >>
DigitChars == << "0", "1", "2", "3", "4", "5", "6", "7", "8", "9" >>

\* [A-Za-z]
Letters == {Lower[k] : k \in 1 .. Len(Lower)} \cup {Upper[k] : k \in 1 .. Len(Upper)}
\* '0' <= c && c <= '9'
Digits == {DigitChars[k] : k \in 1 .. Len(DigitChars)}

\* The strings the addresses below are made of.
Str_localhost == << "l", "o", "c", "a", "l", "h", "o", "s", "t" >>
Str_foo == << "f", "o", "o" >>
Str_http == << "h", "t", "t", "p" >>
Str_HTTP == << "H", "T", "T", "P" >>
Str_https == << "h", "t", "t", "p", "s" >>
Str_amqp == << "a", "m", "q", "p" >>
Str_amqps == << "a", "m", "q", "p", "s" >>
Str_imap == << "i", "m", "a", "p" >>
Str_mysql == << "m", "y", "s", "q", "l" >>
Str_ldap == << "l", "d", "a", "p" >>
Str_ldaps == << "l", "d", "a", "p", "s" >>
Str_psql == << "p", "s", "q", "l" >>
Str_postgresql == << "p", "o", "s", "t", "g", "r", "e", "s", "q", "l" >>
Str_smtp == << "s", "m", "t", "p" >>
Str_5000 == << "5", "0", "0", "0" >>
Str_3000 == << "3", "0", "0", "0" >>
Str_5672 == << "5", "6", "7", "2" >>
Str_5671 == << "5", "6", "7", "1" >>
Str_80 == << "8", "0" >>
Str_443 == << "4", "4", "3" >>
Str_143 == << "1", "4", "3" >>
Str_3306 == << "3", "3", "0", "6" >>
Str_389 == << "3", "8", "9" >>
Str_636 == << "6", "3", "6" >>
Str_5432 == << "5", "4", "3", "2" >>
Str_25 == << "2", "5" >>
Str_3s == << "3", "s" >>
Str_500ms == << "5", "0", "0", "m", "s" >>
Str_2s == << "2", "s" >>
Str_xs == << "x", "s" >>
Str_3 == << "3" >>
SchemeSep == << ":", "/", "/" >>
Colon == << ":" >>
Hash == << "#" >>

\* strings.ToLower, one character and a string
ToLowerRune(c) ==
    IF \E k \in 1 .. Len(Upper) : Upper[k] = c
    THEN Lower[CHOOSE k \in 1 .. Len(Upper) : Upper[k] = c]
    ELSE c
ToLower(s) == [k \in 1 .. Len(s) |-> ToLowerRune(s[k])]

\* strings.ContainsRune
ContainsRune(s, c) == \E k \in 1 .. Len(s) : s[k] = c

\* strings.LastIndex, counted from 1 (0: not found)
LastIndexRune(s, c) ==
    IF ContainsRune(s, c)
    THEN CHOOSE k \in 1 .. Len(s) : s[k] = c /\ \A j \in (k + 1) .. Len(s) : s[j] # c
    ELSE 0

\* The number of consecutive characters of s from position `from` on that
\* are in S (runWhile) or not in S (runUntil): a greedy + or * of a regexp,
\* a scanning loop of time.ParseDuration.
runWhile(s, from, S) ==
    IF from > Len(s) THEN 0
    ELSE CHOOSE k \in 0 .. (Len(s) - from + 1) :
            /\ \A j \in 0 .. (k - 1) : s[from + j] \in S
            /\ (from + k > Len(s) \/ s[from + k] \notin S)
runUntil(s, from, S) ==
    IF from > Len(s) THEN 0
    ELSE CHOOSE k \in 0 .. (Len(s) - from + 1) :
            /\ \A j \in 0 .. (k - 1) : s[from + j] \notin S
            /\ (from + k > Len(s) \/ s[from + k] \in S)

\* strings.HasPrefix(s[k-1:], p)
HasPrefixAt(s, k, p) ==
    /\ k + Len(p) - 1 <= Len(s)
    /\ \A j \in 1 .. Len(p) : s[k + j - 1] = p[j]

\* addrPattern.FindStringSubmatch(addr) with the groups by name:
\*   ^(?P<schema>(?P<proto>[A-Za-z]+)://)?(?P<host>[^#]+)(#(?P<freq>.+))?
\* The optional schema group is tried first and given up when no host can
\* follow it; host is at least one character up to the first '#'; freq is
\* what follows that '#', if anything does.  matched = FALSE is the nil
\* result.
addrPattern(addr) ==
    LET k == runWhile(addr, 1, Letters)
        withSchema == /\ k >= 1
                      /\ HasPrefixAt(addr, k + 1, SchemeSep)
                      /\ runUntil(addr, k + 4, {"#"}) >= 1
        hs == IF withSchema THEN k + 4 ELSE 1
        hl == runUntil(addr, hs, {"#"})
        he == hs + hl - 1
    IN  IF hl = 0
        THEN [matched |-> FALSE, proto |-> << >>, host |-> << >>, freq |-> << >>]
        ELSE [matched |-> TRUE,
              proto |-> IF withSchema THEN SubSeq(addr, 1, k) ELSE << >>,
              host |-> SubSeq(addr, hs, he),
              freq |-> IF he + 2 <= Len(addr)
                       THEN SubSeq(addr, he + 2, Len(addr))
                       ELSE << >>]

\* Mutant of protoPort: the ports of amqp and amqps are exchanged.
protoPort_Swapped ==
    (Str_amqp :> Str_5671) @@ (Str_amqps :> Str_5672) @@ (Str_http :> Str_80) @@
    (Str_https :> Str_443) @@ (Str_imap :> Str_143) @@ (Str_mysql :> Str_3306) @@
    (Str_ldap :> Str_389) @@ (Str_ldaps :> Str_636) @@ (Str_psql :> Str_5432) @@
    (Str_smtp :> Str_25)

\* var protoPort = map[string]string{...}
protoPort ==
    (Str_amqp :> Str_5672) @@ (Str_amqps :> Str_5671) @@ (Str_http :> Str_80) @@
    (Str_https :> Str_443) @@ (Str_imap :> Str_143) @@ (Str_mysql :> Str_3306) @@
    (Str_ldap :> Str_389) @@ (Str_ldaps :> Str_636) @@ (Str_psql :> Str_5432) @@
    (Str_smtp :> Str_25)

\* The errors of the parser: what kind, and the string the message quotes.
ParseError(kind, arg) == [kind |-> kind, arg |-> arg]

\* net.SplitHostPort for a hostport that has a ':' and no '[' or ']': the
\* split is at the last colon, and a colon before it is an error.
SplitHostPort(hostport) ==
    LET i == LastIndexRune(hostport, ":")
        host == SubSeq(hostport, 1, i - 1)
    IN  IF i = 0
        THEN [host |-> << >>, port |-> << >>,
              err |-> ParseError("missing port in address", hostport)]
        ELSE IF ContainsRune(host, ":")
        THEN [host |-> << >>, port |-> << >>,
              err |-> ParseError("too many colons in address", hostport)]
        ELSE [host |-> host, port |-> SubSeq(hostport, i + 1, Len(hostport)),
              err |-> NoErr]

\* time.unitMap in milliseconds (ns and us are below the model's unit)
unitMap == (<< "m", "s" >> :> 1) @@ (<< "s" >> :> 1000) @@
           (<< "m" >> :> 60000) @@ (<< "h" >> :> 3600000)

\* time.leadingInt: the value of a string of decimal digits (v[k] is the
\* value after k digits)
leadingInt(ds) ==
    LET v[k \in 0 .. Len(ds)] ==
            IF k = 0 THEN 0
            ELSE v[k - 1] * 10
                 + ((CHOOSE c \in 1 .. Len(DigitChars) : DigitChars[c] = ds[k]) - 1)
    IN  v[Len(ds)]

\* time.ParseDuration's loop over [0-9]+ unit pairs: rest[k] is what the
\* loop gives for s from position k on (no sign and no fraction: the
\* addresses have neither)
durationLoop(s) ==
    LET rest[k \in 1 .. (Len(s) + 1)] ==
            IF k > Len(s) THEN [d |-> 0, err |-> NoErr]
            ELSE LET nd == runWhile(s, k, Digits)
                     ul == runUntil(s, k + nd, Digits)
                     u == SubSeq(s, k + nd, k + nd + ul - 1)
                 IN  IF nd = 0
                     THEN [d |-> 0, err |-> ParseError("time: invalid duration", s)]
                     ELSE IF ul = 0
                     THEN [d |-> 0,
                           err |-> ParseError("time: missing unit in duration", s)]
                     ELSE IF u \notin DOMAIN unitMap
                     THEN [d |-> 0,
                           err |-> ParseError("time: unknown unit in duration", s)]
                     ELSE IF rest[k + nd + ul].err # NoErr
                     THEN rest[k + nd + ul]
                     ELSE [d |-> leadingInt(SubSeq(s, k, k + nd - 1)) * unitMap[u]
                                 + rest[k + nd + ul].d,
                           err |-> NoErr]
    IN  rest[1]

\* time.ParseDuration
ParseDuration(s) ==
    IF s = << "0" >> THEN [d |-> 0, err |-> NoErr]
    ELSE IF s = << >> THEN [d |-> 0, err |-> ParseError("time: invalid duration", s)]
    ELSE durationLoop(s)

\* (*TCPSpec)(nil)
NilTCPSpec == [Host |-> << >>, Port |-> << >>, PollFreq |-> NoTime]

\* Mutant of ParseTCPSpec: a known protocol's default port is preferred
\* to the port given in the address.
ParseTCPSpec_ProtoFirst(addr, pollFreq) ==
    LET m == addrPattern(addr)
        rawHost == m.host
        hasPort == ContainsRune(rawHost, ":")
        proto == m.proto
        known == m.matched /\ ToLower(proto) \in DOMAIN protoPort
        shp == SplitHostPort(rawHost)
        dur == ParseDuration(m.freq)
        hp == IF known
              THEN [host |-> IF hasPort THEN shp.host ELSE rawHost,
                    port |-> protoPort[ToLower(proto)], err |-> NoErr]
              ELSE IF hasPort THEN shp
              ELSE IF ~m.matched
              THEN [host |-> << >>, port |-> << >>, err |-> NoErr]
              ELSE IF proto = << >>
              THEN [host |-> << >>, port |-> << >>,
                    err |-> ParseError("neither port nor protocol is given", << >>)]
              ELSE [host |-> << >>, port |-> << >>,
                    err |-> ParseError("port not given and protocol is unknown", proto)]
    IN  IF hp.err # NoErr THEN [spec |-> NilTCPSpec, err |-> hp.err]
        ELSE IF m.freq # << >> /\ dur.err # NoErr
        THEN [spec |-> NilTCPSpec, err |-> dur.err]
        ELSE [spec |-> [Host |-> hp.host, Port |-> hp.port,
                        PollFreq |-> IF m.freq # << >> THEN dur.d ELSE pollFreq],
              err |-> NoErr]

\* ParseTCPSpec(addr, pollFreq): the spec and the error it returns.  groups
\* is empty when the pattern does not match, so every lookup in it gives ""
\* and `proto, hasProto = groups["proto"]` gives hasProto = false; when it
\* matches, every group has an entry ("" for a group that took no part).
ParseTCPSpec(addr, pollFreq) ==
    LET m == addrPattern(addr)
        rawHost == m.host
        hasPort == ContainsRune(rawHost, ":")
        hasProto == m.matched
        proto == m.proto
        shp == SplitHostPort(rawHost)
        dur == ParseDuration(m.freq)
        hp == IF hasPort THEN shp
              ELSE IF hasProto
              THEN IF ToLower(proto) \in DOMAIN protoPort
                   THEN [host |-> rawHost, port |-> protoPort[ToLower(proto)],
                         err |-> NoErr]
                   ELSE IF proto = << >>
                   THEN [host |-> << >>, port |-> << >>,
                         err |-> ParseError("neither port nor protocol is given", << >>)]
                   ELSE [host |-> << >>, port |-> << >>,
                         err |-> ParseError("port not given and protocol is unknown", proto)]
              ELSE [host |-> << >>, port |-> << >>, err |-> NoErr]
    IN  IF hp.err # NoErr THEN [spec |-> NilTCPSpec, err |-> hp.err]
        ELSE IF m.freq # << >> /\ dur.err # NoErr
        THEN [spec |-> NilTCPSpec, err |-> dur.err]
        ELSE [spec |-> [Host |-> hp.host, Port |-> hp.port,
                        PollFreq |-> IF m.freq # << >> THEN dur.d ELSE pollFreq],
              err |-> NoErr]

\* One iteration of ParseTCPSpecs' loop, the i-th, r being what ParseTCPSpec
\* returned and prev the specs before it: the return with the empty list and
\* the error, or specs[i] = spec.
parseStep(prev, r, i) ==
    IF r.err # NoErr
    THEN [specs |-> << >>, err |-> r.err, calls |-> i, freq |-> NoTime]
    ELSE [specs |-> Append(prev, r.spec), err |-> NoErr, calls |-> i,
          freq |-> r.spec.PollFreq]

\* Mutant of ParseTCPSpecs: the poll frequency of an address is carried
\* over to the addresses after it.
ParseTCPSpecs_Carry(raws, pollFreq) ==
    LET loop[i \in 0 .. Len(raws)] ==
            IF i = 0
            THEN [specs |-> << >>, err |-> NoErr, calls |-> 0, freq |-> pollFreq]
            ELSE IF loop[i - 1].err # NoErr THEN loop[i - 1]
            ELSE parseStep(loop[i - 1].specs,
                           ParseTCPSpec(raws[i], loop[i - 1].freq), i)
    IN  loop[Len(raws)]

\* ParseTCPSpecs(rawAddrs, defaultPollFreq): the specs and the error it
\* returns, and how many addresses it parsed.  loop[i] is the state of the
\* for loop after i addresses, or the return taken before that.
ParseTCPSpecs(raws, pollFreq) ==
    LET loop[i \in 0 .. Len(raws)] ==
            IF i = 0
            THEN [specs |-> << >>, err |-> NoErr, calls |-> 0, freq |-> pollFreq]
            ELSE IF loop[i - 1].err # NoErr THEN loop[i - 1]
            ELSE parseStep(loop[i - 1].specs, ParseTCPSpec(raws[i], pollFreq), i)
    IN  loop[Len(raws)]

\* net.JoinHostPort(host, port): a host with a ':' is put in brackets
JoinHostPort(host, port) ==
    IF ContainsRune(host, ":")
    THEN << "[" >> \o host \o << "]" >> \o Colon \o port
    ELSE host \o Colon \o port

\* (*TCPSpec).Addr()
Addr(spec) == JoinHostPort(spec.Host, spec.Port)

\* What a call gives that dereferences a nil *TCPSpec: a run-time panic.
NilDeref == << "panic: invalid memory address or nil pointer dereference" >>

Str_tcp == << "t", "c", "p" >>
Str_none == << "<", "n", "o", "n", "e", ">" >>

\* Mutant of Target: the method is (*TCPMessage).Addr, msg.spec.Addr(), which
\* dereferences msg.spec.
Target_Addr(msg) ==
    IF msg.spec = NilSpec THEN NilDeref ELSE Addr(specs[msg.spec])

\* (*TCPMessage).Target(): "tcp://" and the address of the message's spec,
\* "<none>" for a message without spec.  msg.spec is the index of the spec in
\* AllTCP's argument.
Target(msg) ==
    IF msg.spec = NilSpec THEN Str_none
    ELSE Str_tcp \o SchemeSep \o Addr(specs[msg.spec])

----------------------------------------------------------------------------
\* fmtElapsedTime (cmd).  A time.Duration is a number of nanoseconds.

Nanosecond == 1
Microsecond == 1000
Millisecond == 1000000
Second == 1000000000

\* The micro sign U+00B5 of time.Duration.String.
Micro == "u"

\* time.fmtInt: the decimal digits of v.
fmtInt(v) ==
    LET digits[u \in 0 .. v] ==
          IF u < 10 THEN << DigitChars[u + 1] >>
          ELSE digits[u \div 10] \o << DigitChars[(u % 10) + 1] >>
    IN digits[v]

\* time.fmtFrac: the fraction v / 10^prec without its trailing zeros, the
\* decimal point included if any digit is left; nv is v / 10^prec.
fmtFrac(v, prec) ==
    LET loop[k \in 0 .. prec] ==
          IF k = 0 THEN [buf |-> << >>, v |-> v, print |-> FALSE]
          ELSE LET prev == loop[k - 1]
                   digit == prev.v % 10
                   print == prev.print \/ digit # 0
               IN [buf |-> IF print THEN << DigitChars[digit + 1] >> \o prev.buf
                           ELSE prev.buf,
                   v |-> prev.v \div 10,
                   print |-> print]
        last == loop[prec]
    IN [buf |-> IF last.print THEN << "." >> \o last.buf ELSE last.buf, nv |-> last.v]

\* The unit of a duration below one second and the number of digits of its
\* fraction.
subSecond(u) ==
    IF u < Microsecond THEN [prec |-> 0, unit |-> << "n", "s" >>]
    ELSE IF u < Millisecond THEN [prec |-> 3, unit |-> << Micro, "s" >>]
    ELSE [prec |-> 6, unit |-> << "m", "s" >>]

\* The text of a duration of u >= 0 nanoseconds.
formatDuration(u) ==
    IF u = 0 THEN << "0", "s" >>
    ELSE IF u < Second THEN
        LET f == fmtFrac(u, subSecond(u).prec)
        IN fmtInt(f.nv) \o f.buf \o subSecond(u).unit
    ELSE
        LET f == fmtFrac(u, 9)
            mins == f.nv \div 60
            hours == mins \div 60
        IN (IF hours > 0 THEN fmtInt(hours) \o << "h" >> ELSE << >>)
             \o (IF mins > 0 THEN fmtInt(mins % 60) \o << "m" >> ELSE << >>)
             \o fmtInt(f.nv % 60) \o f.buf \o << "s" >>

\* time.Duration.String
String(d) ==
    IF d < 0 THEN << "-" >> \o formatDuration(0 - d) ELSE formatDuration(d)

\* The switch of fmtElapsedTime.
divOf(d) ==
    IF d < Millisecond THEN 10 * Nanosecond
    ELSE IF d < Second THEN 10 * Microsecond
    ELSE 10 * Millisecond

\* Mutant of rounded: a remainder of exactly half the step is rounded down.
rounded_HalfDown(d, div) ==
    LET rounder == div \div 2
        rem == d % div
        val == IF rem > rounder THEN d + rounder ELSE d
    IN (val \div div) * div

\* rounder = div / 2; val = uint64(et); rem = val % div
\* if rem >= rounder { val += rounder }; et = time.Duration(val / div * div)
rounded(d, div) ==
    LET rounder == div \div 2
        rem == d % div
        val == IF rem >= rounder THEN d + rounder ELSE d
    IN (val \div div) * div

fmtElapsedTime(d) ==
    IF d < Microsecond THEN String(d)
    ELSE String(rounded(d, divOf(d)))

----------------------------------------------------------------------------
\* Initial state: AllTCP has returned `out`; every goroutine is started and
\* none has taken a step.

Init ==
    /\ n \in 0 .. MaxTargets
    /\ mode \in {"run", "box"}
    /\ ppc = [i \in Targets |-> "start"]
    /\ pmsg = [i \in Targets |-> NoMsg]
    /\ tick = [i \in Targets |-> FALSE]
    /\ ch = [i \in Targets |-> << >>]
    /\ chClosed = [i \in Targets |-> FALSE]
    /\ fpc = [i \in Targets |-> "recv"]
    /\ fmsg = [i \in Targets |-> NoMsg]
    /\ wg = n
    /\ mpc = "wait"
    /\ mergedClosed = FALSE
    /\ cpc = "select"
    /\ cmsg = NoMsg
    /\ timer = "armed"
    /\ cancelled = FALSE
    /\ outClosed = FALSE
    /\ rpc = "recv"
    /\ exitCode = NoExit
    /\ panicked = FALSE
    /\ emitted = [i \in Targets |-> << >>]
    /\ dialOk = [i \in Targets |-> FALSE]
    /\ received = << >>
    /\ atFire = [fired |-> FALSE, observed |-> FALSE, st |-> [i \in Targets |-> "pending"]]
    /\ dialErr = [i \in Targets |-> "nil"]
    /\ now = 0
    /\ startTime = 0
    /\ startOf = [i \in Targets |-> StartTimeFromContext(startTime)]
    /\ listenAt = [i \in Targets |-> 0]
    /\ emitTime = [i \in Targets |-> << >>]
    /\ pmsgTime = [i \in Targets |-> NoTime]
    /\ synthTime = NoTime
    /\ chTimes = [i \in Targets |-> << >>]
    /\ fmsgTimes = [i \in Targets |-> NoTimes]
    /\ cmsgTimes = NoTimes
    /\ receivedTimes = << >>
    /\ rawAddrs = << >>
    /\ defaultPollFreq = 0
    /\ specs = << >>
    /\ parseErr = NoErr
    /\ parseCalls = 0
    /\ runpc = "wait"
    /\ et = 0
    /\ etString = << >>

----------------------------------------------------------------------------
\* Channel helpers

\* The terminal status prober i has written to its channel, "pending" if none.
proberStatus(i) ==
    IF \E k \in 1 .. Len(emitted[i]) : emitted[i][k].status = "Ready" THEN "ready"
    ELSE IF \E k \in 1 .. Len(emitted[i]) : emitted[i][k].status = "Failed" THEN "failed"
    ELSE "pending"

----------------------------------------------------------------------------
\* SingleTCP: the goroutine of prober i

\* Mutant of ProberStart: after Start the goroutine enters the select loop
\* directly, so its first connection attempt waits for the first tick.
ProberStart_WaitTick(i) ==
    /\ ppc[i] = "start"
    /\ Len(ch[i]) < ChanCap
    /\ ch' = [ch EXCEPT ![i] = Append(@, NewTCPMessageStart(i))]
    /\ emitted' = [emitted EXCEPT ![i] = Append(@, NewTCPMessageStart(i))]
    /\ panicked' = (panicked \/ chClosed[i])
    /\ ppc' = [ppc EXCEPT ![i] = "select"]
    /\ emitTime' = [emitTime EXCEPT ![i] = Append(@, now)]
    /\ chTimes' = [chTimes EXCEPT ![i] = Append(@, Times(startOf[i], now))]
    /\ UNCHANGED << fmsgTimes, cmsgTimes, receivedTimes >>
    /\ UNCHANGED << pmsgTime, synthTime >>
    /\ UNCHANGED << n, mode, pmsg, tick, chClosed, fpc, fmsg, wg, mpc,
                    mergedClosed, cpc, cmsg, timer, cancelled, outClosed, rpc,
                    exitCode, dialOk, received, atFire, dialErr,
                    clockVars, runVars >>

\* out <- NewTCPMessageStart(spec, startTime)
ProberStart(i) ==
    /\ ppc[i] = "start"
    /\ Len(ch[i]) < ChanCap
    /\ ch' = [ch EXCEPT ![i] = Append(@, NewTCPMessageStart(i))]
    /\ emitted' = [emitted EXCEPT ![i] = Append(@, NewTCPMessageStart(i))]
    /\ panicked' = (panicked \/ chClosed[i])
    /\ ppc' = [ppc EXCEPT ![i] = "firstCheck"]
    /\ emitTime' = [emitTime EXCEPT ![i] = Append(@, now)]
    /\ chTimes' = [chTimes EXCEPT ![i] = Append(@, Times(startOf[i], now))]
    /\ UNCHANGED << fmsgTimes, cmsgTimes, receivedTimes >>
    /\ UNCHANGED << pmsgTime, synthTime >>
    /\ UNCHANGED << n, mode, pmsg, tick, chClosed, fpc, fmsg, wg, mpc,
                    mergedClosed, cpc, cmsg, timer, cancelled, outClosed, rpc,
                    exitCode, dialOk, received, atFire, dialErr,
                    clockVars, runVars >>

\* if msg := checkConn(); msg != nil { out <- msg; return }
\* The call returns with one of the outcomes of net.DialTimeout; it does not
\* look at ctx.  It is the first call (before the loop) or a call in the loop.
ProberCheck(i) ==
    /\ ppc[i] \in {"firstCheck", "check"}
    /\ \E outcome \in DialOutcomes :
         LET msg == checkConn(i, outcome) IN
           /\ pmsg' = [pmsg EXCEPT ![i] = msg]
           /\ ppc' = [ppc EXCEPT ![i] = IF msg # NoMsg THEN "send" ELSE "select"]
           /\ dialOk' = [dialOk EXCEPT ![i] = @ \/ outcome = "ok"]
           /\ pmsgTime' = [pmsgTime EXCEPT ![i] = IF msg # NoMsg THEN now ELSE NoTime]
           /\ dialErr' = [dialErr EXCEPT ![i] =
                            IF outcome \in DialErrs /\ ~shouldWait(outcome)
                              THEN outcome ELSE @]
    /\ UNCHANGED << chTimes, fmsgTimes, cmsgTimes, receivedTimes >>
    /\ UNCHANGED << emitTime, synthTime >>
    /\ UNCHANGED << n, mode, tick, ch, chClosed, fpc, fmsg, wg, mpc,
                    mergedClosed, cpc, cmsg, timer, cancelled, outClosed, rpc,
                    exitCode, panicked, emitted, received, atFire,
                    clockVars, runVars >>

\* Mutant of ProberSelectDone: on cancellation the goroutine returns without
\* writing a message.
ProberSelectDone_Silent(i) ==
    /\ ppc[i] = "select"
    /\ cancelled
    /\ ppc' = [ppc EXCEPT ![i] = "close"]
    /\ UNCHANGED << n, mode, pmsg, tick, ch, chClosed, fpc, fmsg, wg, mpc,
                    mergedClosed, cpc, cmsg, timer, cancelled, outClosed, rpc,
                    exitCode, panicked, emitted, dialOk, received, atFire, dialErr,
                    clockVars, runVars, stampVars >>

\* case <-ctx.Done(): out <- NewTCPMessageFailed(spec, startTime, ctx.Err())
ProberSelectDone(i) ==
    /\ ppc[i] = "select"
    /\ cancelled
    /\ pmsg' = [pmsg EXCEPT ![i] = NewTCPMessageFailed(i, CtxErr)]
    /\ ppc' = [ppc EXCEPT ![i] = "send"]
    /\ pmsgTime' = [pmsgTime EXCEPT ![i] = now]
    /\ UNCHANGED << chTimes, fmsgTimes, cmsgTimes, receivedTimes >>
    /\ UNCHANGED << emitTime, synthTime >>
    /\ UNCHANGED << n, mode, tick, ch, chClosed, fpc, fmsg, wg, mpc,
                    mergedClosed, cpc, cmsg, timer, cancelled, outClosed, rpc,
                    exitCode, panicked, emitted, dialOk, received, atFire, dialErr,
                    clockVars, runVars >>

\* case <-pollTicker.C:
ProberSelectTick(i) ==
    /\ ppc[i] = "select"
    /\ tick[i]
    /\ tick' = [tick EXCEPT ![i] = FALSE]
    /\ ppc' = [ppc EXCEPT ![i] = "check"]
    /\ UNCHANGED << n, mode, pmsg, ch, chClosed, fpc, fmsg, wg, mpc,
                    mergedClosed, cpc, cmsg, timer, cancelled, outClosed, rpc,
                    exitCode, panicked, emitted, dialOk, received, atFire, dialErr,
                    clockVars, runVars, stampVars >>

\* Mutant of ProberSend: the `return` after `out <- msg` is missing, the
\* goroutine goes on with the select loop.
ProberSend_NoReturn(i) ==
    /\ ppc[i] = "send"
    /\ Len(ch[i]) < ChanCap
    /\ ch' = [ch EXCEPT ![i] = Append(@, pmsg[i])]
    /\ emitted' = [emitted EXCEPT ![i] = Append(@, pmsg[i])]
    /\ panicked' = (panicked \/ chClosed[i])
    /\ pmsg' = [pmsg EXCEPT ![i] = NoMsg]
    /\ ppc' = [ppc EXCEPT ![i] = "select"]
    /\ emitTime' = [emitTime EXCEPT ![i] = Append(@, pmsgTime[i])]
    /\ pmsgTime' = [pmsgTime EXCEPT ![i] = NoTime]
    /\ chTimes' = [chTimes EXCEPT ![i] = Append(@, Times(startOf[i], pmsgTime[i]))]
    /\ UNCHANGED << fmsgTimes, cmsgTimes, receivedTimes >>
    /\ UNCHANGED synthTime
    /\ UNCHANGED << n, mode, tick, chClosed, fpc, fmsg, wg, mpc,
                    mergedClosed, cpc, cmsg, timer, cancelled, outClosed, rpc,
                    exitCode, dialOk, received, atFire, dialErr,
                    clockVars, runVars >>

\* out <- msg; return
ProberSend(i) ==
    /\ ppc[i] = "send"
    /\ Len(ch[i]) < ChanCap
    /\ ch' = [ch EXCEPT ![i] = Append(@, pmsg[i])]
    /\ emitted' = [emitted EXCEPT ![i] = Append(@, pmsg[i])]
    /\ panicked' = (panicked \/ chClosed[i])
    /\ pmsg' = [pmsg EXCEPT ![i] = NoMsg]
    /\ ppc' = [ppc EXCEPT ![i] = "close"]
    /\ emitTime' = [emitTime EXCEPT ![i] = Append(@, pmsgTime[i])]
    /\ pmsgTime' = [pmsgTime EXCEPT ![i] = NoTime]
    /\ chTimes' = [chTimes EXCEPT ![i] = Append(@, Times(startOf[i], pmsgTime[i]))]
    /\ UNCHANGED << fmsgTimes, cmsgTimes, receivedTimes >>
    /\ UNCHANGED synthTime
    /\ UNCHANGED << n, mode, tick, chClosed, fpc, fmsg, wg, mpc,
                    mergedClosed, cpc, cmsg, timer, cancelled, outClosed, rpc,
                    exitCode, dialOk, received, atFire, dialErr,
                    clockVars, runVars >>

\* Mutant of ProberClose: the goroutine does not end with close(out), it
\* closes again.
ProberClose_Again(i) ==
    /\ ppc[i] = "close"
    /\ chClosed' = [chClosed EXCEPT ![i] = TRUE]
    /\ panicked' = (panicked \/ chClosed[i])
    /\ tick' = [tick EXCEPT ![i] = FALSE]
    /\ UNCHANGED << n, mode, ppc, pmsg, ch, fpc, fmsg, wg, mpc,
                    mergedClosed, cpc, cmsg, timer, cancelled, outClosed, rpc,
                    exitCode, emitted, dialOk, received, atFire, dialErr,
                    clockVars, runVars, stampVars >>

\* defer close(out); defer pollTicker.Stop()
\* The stopped ticker is dropped together with its channel.
ProberClose(i) ==
    /\ ppc[i] = "close"
    /\ chClosed' = [chClosed EXCEPT ![i] = TRUE]
    /\ panicked' = (panicked \/ chClosed[i])
    /\ tick' = [tick EXCEPT ![i] = FALSE]
    /\ ppc' = [ppc EXCEPT ![i] = "done"]
    /\ UNCHANGED << n, mode, pmsg, ch, fpc, fmsg, wg, mpc,
                    mergedClosed, cpc, cmsg, timer, cancelled, outClosed, rpc,
                    exitCode, emitted, dialOk, received, atFire, dialErr,
                    clockVars, runVars, stampVars >>

\* The runtime puts a tick into pollTicker.C (capacity 1; a tick that finds
\* the channel full is dropped).  The only receive from pollTicker.C is the
\* select's: a tick that arrived during the preceding connection attempt is
\* received there like one that arrives while the select waits, so the tick
\* is delivered at the select.
PollTick(i) ==
    /\ ppc[i] = "select"
    /\ ~tick[i]
    /\ tick' = [tick EXCEPT ![i] = TRUE]
    /\ UNCHANGED << n, mode, ppc, pmsg, ch, chClosed, fpc, fmsg, wg, mpc,
                    mergedClosed, cpc, cmsg, timer, cancelled, outClosed, rpc,
                    exitCode, panicked, emitted, dialOk, received, atFire, dialErr,
                    clockVars, runVars, stampVars >>

----------------------------------------------------------------------------
\* merge: forward(ch) for input i, and the closing goroutine

\* Mutant of ForwardRecv: the forwarder takes the newest message of the
\* channel and discards what was queued before it.
ForwardRecv_Skip(i) ==
    /\ fpc[i] = "recv"
    /\ Len(ch[i]) > 0
    /\ fmsg' = [fmsg EXCEPT ![i] = ch[i][Len(ch[i])]]
    /\ ch' = [ch EXCEPT ![i] = << >>]
    /\ fpc' = [fpc EXCEPT ![i] = "send"]
    /\ fmsgTimes' = [fmsgTimes EXCEPT ![i] = chTimes[i][Len(chTimes[i])]]
    /\ chTimes' = [chTimes EXCEPT ![i] = << >>]
    /\ UNCHANGED << n, mode, ppc, pmsg, tick, chClosed, wg, mpc,
                    mergedClosed, cpc, cmsg, timer, cancelled, outClosed, rpc,
                    exitCode, panicked, emitted, dialOk, received, atFire, dialErr,
                    clockVars, runVars, emitTime, pmsgTime, synthTime, cmsgTimes, receivedTimes >>

\* Mutant of ForwardRecv: the forwarder takes the newest message of the
\* channel first (last in, first out).
ForwardRecv_Lifo(i) ==
    /\ fpc[i] = "recv"
    /\ Len(ch[i]) > 0
    /\ fmsg' = [fmsg EXCEPT ![i] = ch[i][Len(ch[i])]]
    /\ ch' = [ch EXCEPT ![i] = SubSeq(@, 1, Len(@) - 1)]
    /\ fpc' = [fpc EXCEPT ![i] = "send"]
    /\ fmsgTimes' = [fmsgTimes EXCEPT ![i] = chTimes[i][Len(chTimes[i])]]
    /\ chTimes' = [chTimes EXCEPT ![i] = SubSeq(@, 1, Len(@) - 1)]
    /\ UNCHANGED << n, mode, ppc, pmsg, tick, chClosed, wg, mpc,
                    mergedClosed, cpc, cmsg, timer, cancelled, outClosed, rpc,
                    exitCode, panicked, emitted, dialOk, received, atFire, dialErr,
                    clockVars, runVars, emitTime, pmsgTime, synthTime, cmsgTimes, receivedTimes >>

\* for msg := range ch  -- a message is available
ForwardRecv(i) ==
    /\ fpc[i] = "recv"
    /\ Len(ch[i]) > 0
    /\ fmsg' = [fmsg EXCEPT ![i] = Head(ch[i])]
    /\ ch' = [ch EXCEPT ![i] = Tail(@)]
    /\ fpc' = [fpc EXCEPT ![i] = "send"]
    /\ fmsgTimes' = [fmsgTimes EXCEPT ![i] = Head(chTimes[i])]
    /\ chTimes' = [chTimes EXCEPT ![i] = Tail(@)]
    /\ UNCHANGED << n, mode, ppc, pmsg, tick, chClosed, wg, mpc,
                    mergedClosed, cpc, cmsg, timer, cancelled, outClosed, rpc,
                    exitCode, panicked, emitted, dialOk, received, atFire, dialErr,
                    clockVars, runVars, emitTime, pmsgTime, synthTime, cmsgTimes, receivedTimes >>

\* Mutant of ForwardExit: the range loop ends as soon as the channel is
\* empty, closed or not.
ForwardExit_NotClosed(i) ==
    /\ fpc[i] = "recv"
    /\ Len(ch[i]) = 0
    /\ fpc' = [fpc EXCEPT ![i] = "exit"]
    /\ UNCHANGED << n, mode, ppc, pmsg, tick, ch, chClosed, fmsg, wg, mpc,
                    mergedClosed, cpc, cmsg, timer, cancelled, outClosed, rpc,
                    exitCode, panicked, emitted, dialOk, received, atFire, dialErr,
                    clockVars, runVars, stampVars >>

\* for msg := range ch  -- the channel is closed and drained: the loop ends
ForwardExit(i) ==
    /\ fpc[i] = "recv"
    /\ Len(ch[i]) = 0
    /\ chClosed[i]
    /\ fpc' = [fpc EXCEPT ![i] = "exit"]
    /\ UNCHANGED << n, mode, ppc, pmsg, tick, ch, chClosed, fmsg, wg, mpc,
                    mergedClosed, cpc, cmsg, timer, cancelled, outClosed, rpc,
                    exitCode, panicked, emitted, dialOk, received, atFire, dialErr,
                    clockVars, runVars, stampVars >>

\* Mutant of ForwardDone: wg.Done() sits inside the range loop's last
\* iteration as well as after it, the forwarder counts itself down twice.
ForwardDone_Twice(i) ==
    /\ fpc[i] = "exit"
    /\ wg' = wg - 2
    /\ panicked' = (panicked \/ wg - 2 < 0)
    /\ fpc' = [fpc EXCEPT ![i] = "done"]
    /\ UNCHANGED << n, mode, ppc, pmsg, tick, ch, chClosed, fmsg, mpc,
                    mergedClosed, cpc, cmsg, timer, cancelled, outClosed, rpc,
                    exitCode, emitted, dialOk, received, atFire, dialErr,
                    clockVars, runVars, stampVars >>

\* wg.Done()
ForwardDone(i) ==
    /\ fpc[i] = "exit"
    /\ wg' = wg - 1
    /\ panicked' = (panicked \/ wg - 1 < 0)
    /\ fpc' = [fpc EXCEPT ![i] = "done"]
    /\ UNCHANGED << n, mode, ppc, pmsg, tick, ch, chClosed, fmsg, mpc,
                    mergedClosed, cpc, cmsg, timer, cancelled, outClosed, rpc,
                    exitCode, emitted, dialOk, received, atFire, dialErr,
                    clockVars, runVars, stampVars >>

\* Mutant of MergeClose: the wait group is one short (wg.Add(len(chs) - 1)),
\* so wg.Wait() returns while one forwarder is still running.
MergeClose_OneShort ==
    /\ mpc = "wait"
    /\ wg <= 1
    /\ mergedClosed' = TRUE
    /\ panicked' = (panicked \/ mergedClosed)
    /\ mpc' = "done"
    /\ UNCHANGED << n, mode, ppc, pmsg, tick, ch, chClosed, fpc, fmsg, wg,
                    cpc, cmsg, timer, cancelled, outClosed, rpc,
                    exitCode, emitted, dialOk, received, atFire, dialErr,
                    clockVars, runVars, stampVars >>

\* go func() { wg.Wait(); close(merged) }()
MergeClose ==
    /\ mpc = "wait"
    /\ wg = 0
    /\ mergedClosed' = TRUE
    /\ panicked' = (panicked \/ mergedClosed)
    /\ mpc' = "done"
    /\ UNCHANGED << n, mode, ppc, pmsg, tick, ch, chClosed, fpc, fmsg, wg,
                    cpc, cmsg, timer, cancelled, outClosed, rpc,
                    exitCode, emitted, dialOk, received, atFire, dialErr,
                    clockVars, runVars, stampVars >>

----------------------------------------------------------------------------
\* AllTCP: the deadline timer and the coordinating goroutine

\* The runtime fires the timer: a value is put into timeout.C.
TimerFire ==
    /\ timer = "armed"
    /\ timer' = "fired"
    /\ atFire' = [fired |-> TRUE,
                  observed |-> cpc \notin {"select", "send"},
                  st |-> [i \in Targets |-> proberStatus(i)]]
    /\ UNCHANGED << n, mode, ppc, pmsg, tick, ch, chClosed, fpc, fmsg, wg, mpc,
                    mergedClosed, cpc, cmsg, cancelled, outClosed, rpc,
                    exitCode, panicked, emitted, dialOk, received, dialErr,
                    clockVars, runVars, stampVars >>

\* Mutant of CoordTimeout: the timer case calls cancel() before it sends the
\* synthetic message.
CoordTimeout_CancelFirst ==
    /\ cpc = "select"
    /\ timer = "fired"
    /\ timer' = "taken"
    /\ cmsg' = timeoutMsg
    /\ cancelled' = TRUE
    /\ cpc' = "sendTimeout"
    /\ synthTime' = now
    /\ cmsgTimes' = Times(startTime, now)
    /\ UNCHANGED << chTimes, fmsgTimes, receivedTimes >>
    /\ UNCHANGED << emitTime, pmsgTime >>
    /\ UNCHANGED << n, mode, ppc, pmsg, tick, ch, chClosed, fpc, fmsg, wg, mpc,
                    mergedClosed, outClosed, rpc,
                    exitCode, panicked, emitted, dialOk, received, atFire, dialErr,
                    clockVars, runVars >>

\* Mutant of CoordTimeout: the timer case returns without sending the
\* synthetic message.
CoordTimeout_Silent ==
    /\ cpc = "select"
    /\ timer = "fired"
    /\ timer' = "taken"
    /\ cpc' = "closeOut"
    /\ UNCHANGED << n, mode, ppc, pmsg, tick, ch, chClosed, fpc, fmsg, wg, mpc,
                    mergedClosed, cmsg, cancelled, outClosed, rpc,
                    exitCode, panicked, emitted, dialOk, received, atFire, dialErr,
                    clockVars, runVars, stampVars >>

\* Mutant of CoordTimeout: the `return` after `out <- msg` is missing, the
\* goroutine goes back to its select.
CoordTimeout_NoReturn ==
    /\ cpc = "select"
    /\ timer = "fired"
    /\ timer' = "taken"
    /\ cmsg' = timeoutMsg
    /\ cpc' = "send"
    /\ synthTime' = now
    /\ cmsgTimes' = Times(startTime, now)
    /\ UNCHANGED << chTimes, fmsgTimes, receivedTimes >>
    /\ UNCHANGED << emitTime, pmsgTime >>
    /\ UNCHANGED << n, mode, ppc, pmsg, tick, ch, chClosed, fpc, fmsg, wg, mpc,
                    mergedClosed, cancelled, outClosed, rpc,
                    exitCode, panicked, emitted, dialOk, received, atFire, dialErr,
                    clockVars, runVars >>

\* case <-timeout.C: msg := NewTCPMessageFailed(nil, ...); out <- msg
CoordTimeout ==
    /\ cpc = "select"
    /\ timer = "fired"
    /\ timer' = "taken"
    /\ cmsg' = timeoutMsg
    /\ cpc' = "sendTimeout"
    /\ synthTime' = now
    /\ cmsgTimes' = Times(startTime, now)
    /\ UNCHANGED << chTimes, fmsgTimes, receivedTimes >>
    /\ UNCHANGED << emitTime, pmsgTime >>
    /\ UNCHANGED << n, mode, ppc, pmsg, tick, ch, chClosed, fpc, fmsg, wg, mpc,
                    mergedClosed, cancelled, outClosed, rpc,
                    exitCode, panicked, emitted, dialOk, received, atFire, dialErr,
                    clockVars, runVars >>

\* Mutant of CoordRecv: the received message is not sent to `out`.
CoordRecv_Drop(i) ==
    /\ cpc = "select"
    /\ fpc[i] = "send"
    /\ fmsg' = [fmsg EXCEPT ![i] = NoMsg]
    /\ fpc' = [fpc EXCEPT ![i] = "recv"]
    /\ panicked' = (panicked \/ mergedClosed)
    /\ fmsgTimes' = [fmsgTimes EXCEPT ![i] = NoTimes]
    /\ UNCHANGED << n, mode, ppc, pmsg, tick, ch, chClosed, wg, mpc, cpc, cmsg,
                    mergedClosed, timer, cancelled, outClosed, rpc,
                    exitCode, emitted, dialOk, received, atFire, dialErr,
                    clockVars, runVars, emitTime, pmsgTime, synthTime, chTimes, cmsgTimes, receivedTimes >>

\* Mutant of CoordRecv: AllTCP's goroutine calls cancel() as soon as it has
\* received a message.
CoordRecv_Cancel(i) ==
    /\ cpc = "select"
    /\ fpc[i] = "send"
    /\ cmsg' = setStringF(fmsg[i])
    /\ fmsg' = [fmsg EXCEPT ![i] = NoMsg]
    /\ fpc' = [fpc EXCEPT ![i] = "recv"]
    /\ panicked' = (panicked \/ mergedClosed)
    /\ cpc' = "send"
    /\ cancelled' = TRUE
    /\ cmsgTimes' = fmsgTimes[i]
    /\ fmsgTimes' = [fmsgTimes EXCEPT ![i] = NoTimes]
    /\ UNCHANGED << n, mode, ppc, pmsg, tick, ch, chClosed, wg, mpc,
                    mergedClosed, timer, outClosed, rpc,
                    exitCode, emitted, dialOk, received, atFire, dialErr,
                    clockVars, runVars, emitTime, pmsgTime, synthTime, chTimes, receivedTimes >>

\* Mutant of CoordRecv: the inputs are taken in turn, a message of input i
\* only when the forwarders of the inputs before i are done (merge
\* concatenates its inputs).
CoordRecv_InTurn(i) ==
    /\ cpc = "select"
    /\ fpc[i] = "send"
    /\ \A j \in 1 .. i - 1 : fpc[j] = "done"
    /\ cmsg' = setStringF(fmsg[i])
    /\ fmsg' = [fmsg EXCEPT ![i] = NoMsg]
    /\ fpc' = [fpc EXCEPT ![i] = "recv"]
    /\ panicked' = (panicked \/ mergedClosed)
    /\ cpc' = "send"
    /\ cmsgTimes' = fmsgTimes[i]
    /\ fmsgTimes' = [fmsgTimes EXCEPT ![i] = NoTimes]
    /\ UNCHANGED << n, mode, ppc, pmsg, tick, ch, chClosed, wg, mpc,
                    mergedClosed, timer, cancelled, outClosed, rpc,
                    exitCode, emitted, dialOk, received, atFire, dialErr,
                    clockVars, runVars, emitTime, pmsgTime, synthTime, chTimes, receivedTimes >>

\* Mutant of CoordRecv: AllTCP's goroutine does not pass the received message
\* on, it sends a message it makes itself from the received one's status,
\* spec, error and startTime; the constructor stamps it with time.Now().
CoordRecv_Copy(i) ==
    /\ cpc = "select"
    /\ fpc[i] = "send"
    /\ cmsg' = setStringF(fmsg[i])
    /\ fmsg' = [fmsg EXCEPT ![i] = NoMsg]
    /\ fpc' = [fpc EXCEPT ![i] = "recv"]
    /\ panicked' = (panicked \/ mergedClosed)
    /\ cpc' = "send"
    /\ cmsgTimes' = Times(fmsgTimes[i].startTime, now)
    /\ fmsgTimes' = [fmsgTimes EXCEPT ![i] = NoTimes]
    /\ UNCHANGED << n, mode, ppc, pmsg, tick, ch, chClosed, wg, mpc,
                    mergedClosed, timer, cancelled, outClosed, rpc,
                    exitCode, emitted, dialOk, received, atFire, dialErr,
                    clockVars, runVars, emitTime, pmsgTime, synthTime, chTimes, receivedTimes >>

\* case msg, isOpen := <-msgs  with isOpen: the rendezvous with forwarder i's
\* `merged <- msg`; then the switch that sets msg.stringF.
CoordRecv(i) ==
    /\ cpc = "select"
    /\ fpc[i] = "send"
    /\ cmsg' = setStringF(fmsg[i])
    /\ fmsg' = [fmsg EXCEPT ![i] = NoMsg]
    /\ fpc' = [fpc EXCEPT ![i] = "recv"]
    /\ panicked' = (panicked \/ mergedClosed)
    /\ cpc' = "send"
    /\ cmsgTimes' = fmsgTimes[i]
    /\ fmsgTimes' = [fmsgTimes EXCEPT ![i] = NoTimes]
    /\ UNCHANGED << n, mode, ppc, pmsg, tick, ch, chClosed, wg, mpc,
                    mergedClosed, timer, cancelled, outClosed, rpc,
                    exitCode, emitted, dialOk, received, atFire, dialErr,
                    clockVars, runVars, emitTime, pmsgTime, synthTime, chTimes, receivedTimes >>

\* case msg, isOpen := <-msgs  with !isOpen: return
CoordClosed ==
    /\ cpc = "select"
    /\ mergedClosed
    /\ cpc' = "closeOut"
    /\ UNCHANGED << n, mode, ppc, pmsg, tick, ch, chClosed, fpc, fmsg, wg, mpc,
                    mergedClosed, cmsg, timer, cancelled, outClosed, rpc,
                    exitCode, panicked, emitted, dialOk, received, atFire, dialErr,
                    clockVars, runVars, stampVars >>

\* Mutant of CoordCloseOut: after close(out) the goroutine is back in its
\* loop.
CoordCloseOut_Loop ==
    /\ cpc = "closeOut"
    /\ outClosed' = TRUE
    /\ panicked' = (panicked \/ outClosed)
    /\ cpc' = "select"
    /\ UNCHANGED << n, mode, ppc, pmsg, tick, ch, chClosed, fpc, fmsg, wg, mpc,
                    mergedClosed, cmsg, timer, cancelled, rpc,
                    exitCode, emitted, dialOk, received, atFire, dialErr,
                    clockVars, runVars, stampVars >>

\* defer close(out)  -- the first deferred call to run
CoordCloseOut ==
    /\ cpc = "closeOut"
    /\ outClosed' = TRUE
    /\ panicked' = (panicked \/ outClosed)
    /\ cpc' = "cancel"
    /\ UNCHANGED << n, mode, ppc, pmsg, tick, ch, chClosed, fpc, fmsg, wg, mpc,
                    mergedClosed, cmsg, timer, cancelled, rpc,
                    exitCode, emitted, dialOk, received, atFire, dialErr,
                    clockVars, runVars, stampVars >>

\* defer cancel()  -- the second deferred call to run
CoordCancel ==
    /\ cpc = "cancel"
    /\ cancelled' = TRUE
    /\ cpc' = "stop"
    /\ UNCHANGED << n, mode, ppc, pmsg, tick, ch, chClosed, fpc, fmsg, wg, mpc,
                    mergedClosed, cmsg, timer, outClosed, rpc,
                    exitCode, panicked, emitted, dialOk, received, atFire, dialErr,
                    clockVars, runVars, stampVars >>

\* Mutant of CoordStop: timeout.Stop() is not called.
CoordStop_Forgotten ==
    /\ cpc = "stop"
    /\ cpc' = "done"
    /\ UNCHANGED << n, mode, ppc, pmsg, tick, ch, chClosed, fpc, fmsg, wg, mpc,
                    mergedClosed, cmsg, timer, cancelled, outClosed, rpc,
                    exitCode, panicked, emitted, dialOk, received, atFire, dialErr,
                    clockVars, runVars, stampVars >>

\* defer timeout.Stop()  -- the last deferred call to run
CoordStop ==
    /\ cpc = "stop"
    /\ timer' = IF timer = "armed" THEN "stopped" ELSE timer
    /\ cpc' = "done"
    /\ UNCHANGED << n, mode, ppc, pmsg, tick, ch, chClosed, fpc, fmsg, wg, mpc,
                    mergedClosed, cmsg, cancelled, outClosed, rpc,
                    exitCode, panicked, emitted, dialOk, received, atFire, dialErr,
                    clockVars, runVars, stampVars >>

----------------------------------------------------------------------------
\* The consumer of AllTCP's output

\* Mutant of Deliver: cmd.run does not look at msg.Err().
Deliver_IgnoreErr ==
    /\ cpc \in {"send", "sendTimeout"}
    /\ rpc = "recv"
    /\ received' = Append(received, cmsg)
    /\ panicked' = (panicked \/ outClosed)
    /\ cmsg' = NoMsg
    /\ cpc' = IF cpc = "send" THEN "select" ELSE "closeOut"
    /\ receivedTimes' = Append(receivedTimes, cmsgTimes)
    /\ cmsgTimes' = NoTimes
    /\ UNCHANGED << rpc, exitCode >>
    /\ UNCHANGED << n, mode, ppc, pmsg, tick, ch, chClosed, fpc, fmsg, wg, mpc,
                    mergedClosed, timer, cancelled, outClosed,
                    emitted, dialOk, atFire, dialErr,
                    clockVars, runVars, emitTime, pmsgTime, synthTime, chTimes, fmsgTimes >>

\* Mutant of Deliver: AllTCP's goroutine returns after it has sent a Failed
\* message of a target (fail fast).
Deliver_FailFast ==
    /\ cpc \in {"send", "sendTimeout"}
    /\ rpc = "recv"
    /\ received' = Append(received, cmsg)
    /\ panicked' = (panicked \/ outClosed)
    /\ cmsg' = NoMsg
    /\ cpc' = IF cpc = "send" /\ cmsg.status # "Failed" THEN "select" ELSE "closeOut"
    /\ IF mode = "run" /\ cmsg.err # "nil"
         THEN rpc' = "done" /\ exitCode' = 1
         ELSE UNCHANGED << rpc, exitCode >>
    /\ receivedTimes' = Append(receivedTimes, cmsgTimes)
    /\ cmsgTimes' = NoTimes
    /\ UNCHANGED << n, mode, ppc, pmsg, tick, ch, chClosed, fpc, fmsg, wg, mpc,
                    mergedClosed, timer, cancelled, outClosed,
                    emitted, dialOk, atFire, dialErr,
                    clockVars, runVars, emitTime, pmsgTime, synthTime, chTimes, fmsgTimes >>

\* `out <- msg` of AllTCP's goroutine meets the consumer's receive.
\* cmd.run returns 1 when msg.Err() != nil; a draining reader goes on.
Deliver ==
    /\ cpc \in {"send", "sendTimeout"}
    /\ rpc = "recv"
    /\ received' = Append(received, cmsg)
    /\ panicked' = (panicked \/ outClosed)
    /\ cmsg' = NoMsg
    /\ cpc' = IF cpc = "send" THEN "select" ELSE "closeOut"
    /\ IF mode = "run" /\ cmsg.err # "nil"
         THEN rpc' = "done" /\ exitCode' = 1
         ELSE UNCHANGED << rpc, exitCode >>
    /\ receivedTimes' = Append(receivedTimes, cmsgTimes)
    /\ cmsgTimes' = NoTimes
    /\ UNCHANGED << n, mode, ppc, pmsg, tick, ch, chClosed, fpc, fmsg, wg, mpc,
                    mergedClosed, timer, cancelled, outClosed,
                    emitted, dialOk, atFire, dialErr,
                    clockVars, runVars, emitTime, pmsgTime, synthTime, chTimes, fmsgTimes >>

\* The consumer's range loop ends: `out` is closed.  cmd.run returns 0.
ConsumerClosed ==
    /\ rpc = "recv"
    /\ outClosed
    /\ rpc' = "done"
    /\ exitCode' = IF mode = "run" THEN 0 ELSE exitCode
    /\ UNCHANGED << n, mode, ppc, pmsg, tick, ch, chClosed, fpc, fmsg, wg, mpc,
                    mergedClosed, cpc, cmsg, timer, cancelled, outClosed,
                    panicked, emitted, dialOk, received, atFire, dialErr,
                    clockVars, runVars, stampVars >>

----------------------------------------------------------------------------

Next ==
    \/ \E i \in Targets : ProberStart(i)
    \/ \E i \in Targets : ProberCheck(i)
    \/ \E i \in Targets : ProberSelectDone(i)
    \/ \E i \in Targets : ProberSelectTick(i)
    \/ \E i \in Targets : ProberSend(i)
    \/ \E i \in Targets : ProberClose(i)
    \/ \E i \in Targets : PollTick(i)
    \/ \E i \in Targets : ForwardRecv(i)
    \/ \E i \in Targets : ForwardExit(i)
    \/ \E i \in Targets : ForwardDone(i)
    \/ MergeClose
    \/ TimerFire
    \/ CoordTimeout
    \/ \E i \in Targets : CoordRecv(i)
    \/ CoordClosed
    \/ CoordCloseOut
    \/ CoordCancel
    \/ CoordStop
    \/ Deliver
    \/ ConsumerClosed

Spec == Init /\ [][Next]_vars

\* Scheduling: the Go scheduler eventually runs every goroutine that can take
\* a step, the runtime eventually fires an armed timer and delivers ticks,
\* and a select whose timer case stays ready eventually takes it (select
\* chooses among its ready cases at random).  For the same reason a prober
\* whose select finds ctx.Done() ready again and again eventually takes that
\* case, although a poll tick may be ready each time: strong fairness.
Fairness ==
    /\ \A i \in 1 .. MaxTargets :
         /\ WF_vars(i \in Targets /\ ProberStart(i))
         /\ WF_vars(i \in Targets /\ ProberCheck(i))
         /\ SF_vars(i \in Targets /\ ProberSelectDone(i))
         /\ WF_vars(i \in Targets /\ ProberSelectTick(i))
         /\ WF_vars(i \in Targets /\ ProberSend(i))
         /\ WF_vars(i \in Targets /\ ProberClose(i))
         /\ WF_vars(i \in Targets /\ PollTick(i))
         /\ WF_vars(i \in Targets /\ ForwardRecv(i))
         /\ WF_vars(i \in Targets /\ ForwardExit(i))
         /\ WF_vars(i \in Targets /\ ForwardDone(i))
         /\ WF_vars(i \in Targets /\ CoordRecv(i))
    /\ WF_vars(MergeClose)
    /\ WF_vars(TimerFire)
    /\ WF_vars(CoordTimeout)
    /\ WF_vars(CoordClosed)
    /\ WF_vars(CoordCloseOut)
    /\ WF_vars(CoordCancel)
    /\ WF_vars(CoordStop)
    /\ WF_vars(Deliver)
    /\ WF_vars(ConsumerClosed)

FairSpec == Init /\ [][Next]_vars /\ Fairness

----------------------------------------------------------------------------
\* The timed specification: the clock advances, the deadline timer fires no
\* earlier than waitTimeout after AllTCP took startTime, and a connection
\* attempt succeeds exactly if the target's listener accepts by then.  The
\* poll frequency is any duration: a tick may come at any time.

ListenTimes == (0 .. MaxTime) \cup {Never}

listening(i) == listenAt[i] # Never /\ now >= listenAt[i]

\* AllTCP has returned `out` to a draining reader; startTime was taken at 0
\* and it is now 0 or later.
TimedInitFor(ns) ==
    /\ n \in ns
    /\ mode = "box"
    /\ ppc = [i \in Targets |-> "start"]
    /\ pmsg = [i \in Targets |-> NoMsg]
    /\ tick = [i \in Targets |-> FALSE]
    /\ ch = [i \in Targets |-> << >>]
    /\ chClosed = [i \in Targets |-> FALSE]
    /\ fpc = [i \in Targets |-> "recv"]
    /\ fmsg = [i \in Targets |-> NoMsg]
    /\ wg = n
    /\ mpc = "wait"
    /\ mergedClosed = FALSE
    /\ cpc = "select"
    /\ cmsg = NoMsg
    /\ timer = "armed"
    /\ cancelled = FALSE
    /\ outClosed = FALSE
    /\ rpc = "recv"
    /\ exitCode = NoExit
    /\ panicked = FALSE
    /\ emitted = [i \in Targets |-> << >>]
    /\ dialOk = [i \in Targets |-> FALSE]
    /\ received = << >>
    /\ atFire = [fired |-> FALSE, observed |-> FALSE, st |-> [i \in Targets |-> "pending"]]
    /\ dialErr = [i \in Targets |-> "nil"]
    /\ startTime = 0
    /\ now \in 0 .. 1
    /\ startOf = [i \in Targets |-> StartTimeFromContext(startTime)]
    /\ listenAt \in [Targets -> ListenTimes]
    /\ emitTime = [i \in Targets |-> << >>]
    /\ pmsgTime = [i \in Targets |-> NoTime]
    /\ synthTime = NoTime
    /\ chTimes = [i \in Targets |-> << >>]
    /\ fmsgTimes = [i \in Targets |-> NoTimes]
    /\ cmsgTimes = NoTimes
    /\ receivedTimes = << >>
    /\ rawAddrs = << >>
    /\ defaultPollFreq = 0
    /\ specs = << >>
    /\ parseErr = NoErr
    /\ parseCalls = 0
    /\ runpc = "wait"
    /\ et = 0
    /\ etString = << >>

TimedInit == TimedInitFor(0 .. MaxTimedTargets)

\* Time passes.
Tick ==
    /\ now < MaxTime
    /\ now' = now + 1
    /\ UNCHANGED << n, mode, ppc, pmsg, tick, ch, chClosed, fpc, fmsg, wg, mpc,
                    mergedClosed, cpc, cmsg, timer, cancelled, outClosed, rpc,
                    exitCode, panicked, emitted, dialOk, received, atFire, dialErr,
                    startTime, startOf, listenAt, stampVars, runVars >>

\* net.DialTimeout succeeds exactly if the listener accepts.
TimedProberCheck(i) ==
    /\ ProberCheck(i)
    /\ (pmsg'[i].status = "Ready" <=> listening(i))

\* timeout = time.NewTimer(waitTimeout), created after startTime was taken.
TimedTimerFire ==
    /\ TimerFire
    /\ now >= startTime + WaitTimeout

TimedNext ==
    \/ Tick
    \/ TimedTimerFire
    \/ \E i \in Targets : TimedProberCheck(i)
    \/ \E i \in Targets : ProberStart(i)
    \/ \E i \in Targets : ProberSelectDone(i)
    \/ \E i \in Targets : ProberSelectTick(i)
    \/ \E i \in Targets : ProberSend(i)
    \/ \E i \in Targets : ProberClose(i)
    \/ \E i \in Targets : PollTick(i)
    \/ \E i \in Targets : ForwardRecv(i)
    \/ \E i \in Targets : ForwardExit(i)
    \/ \E i \in Targets : ForwardDone(i)
    \/ MergeClose
    \/ CoordTimeout
    \/ \E i \in Targets : CoordRecv(i)
    \/ CoordClosed
    \/ CoordCloseOut
    \/ CoordCancel
    \/ CoordStop
    \/ Deliver
    \/ ConsumerClosed

TimedSpec == TimedInit /\ [][TimedNext]_vars

----------------------------------------------------------------------------
\* The specification of the output order: AllTCP with MaxTargets targets
\* whose listeners accept from the start or from the first clock unit on, and
\* with a waitTimeout the clock does not reach.  The timer stays armed, so
\* neither the timer case nor, before every prober is done, cancel() occurs.

OrderInit ==
    /\ TimedInitFor({MaxTargets})
    /\ now = 0
    /\ listenAt \in [Targets -> 0 .. 1]

\* Time passes, short of the deadline.
OrderTick ==
    /\ now < MaxOrderTime
    /\ now + 1 < startTime + WaitTimeout
    /\ Tick

OrderNext ==
    \/ OrderTick
    \/ \E i \in Targets : TimedProberCheck(i)
    \/ \E i \in Targets : ProberStart(i)
    \/ \E i \in Targets : ProberSelectTick(i)
    \/ \E i \in Targets : ProberSend(i)
    \/ \E i \in Targets : ProberClose(i)
    \/ \E i \in Targets : PollTick(i)
    \/ \E i \in Targets : ForwardRecv(i)
    \/ \E i \in Targets : ForwardExit(i)
    \/ \E i \in Targets : ForwardDone(i)
    \/ MergeClose
    \/ \E i \in Targets : CoordRecv(i)
    \/ CoordClosed
    \/ CoordCloseOut
    \/ CoordCancel
    \/ CoordStop
    \/ Deliver
    \/ ConsumerClosed

OrderSpec == OrderInit /\ [][OrderNext]_vars

----------------------------------------------------------------------------
\* run (cmd): ParseTCPSpecs, then AllTCP and the loop over its messages.

\* The addresses ParseTCPSpecs is given.
ParseAddrs ==
    { << >>,
      Hash \o Str_3s,
      Str_localhost,
      Str_localhost \o Hash \o Str_3s,
      Str_localhost \o Hash \o Str_xs,
      Str_localhost \o Colon,
      Str_localhost \o Colon \o Str_5000,
      Str_localhost \o Colon \o Str_5000 \o Hash,
      Str_localhost \o Colon \o Str_5000 \o Hash \o Str_3s,
      Str_localhost \o Colon \o Str_5000 \o Hash \o Str_xs,
      Str_localhost \o Colon \o Str_5000 \o Hash \o Str_3,
      Str_localhost \o Colon \o Str_80 \o Colon \o Str_25,
      Str_foo \o SchemeSep,
      Str_foo \o SchemeSep \o Str_localhost,
      Str_foo \o SchemeSep \o Str_localhost \o Hash \o Str_3s,
      Str_foo \o SchemeSep \o Str_localhost \o Colon \o Str_3000,
      Str_http \o SchemeSep \o Hash \o Str_3s,
      Str_http \o SchemeSep \o Str_localhost,
      Str_HTTP \o SchemeSep \o Str_localhost,
      Str_http \o SchemeSep \o Str_localhost \o Hash \o Str_500ms,
      Str_http \o SchemeSep \o Str_localhost \o Hash \o Str_xs,
      Str_http \o SchemeSep \o Str_localhost \o Colon \o Str_3000,
      Str_http \o SchemeSep \o Str_localhost \o Colon \o Str_3000 \o Hash \o Str_2s,
      Str_amqp \o SchemeSep \o Str_localhost,
      Str_amqps \o SchemeSep \o Str_localhost \o Hash \o Str_500ms,
      Str_https \o SchemeSep \o Str_localhost,
      Str_imap \o SchemeSep \o Str_localhost,
      Str_mysql \o SchemeSep \o Str_localhost,
      Str_ldap \o SchemeSep \o Str_localhost,
      Str_ldaps \o SchemeSep \o Str_localhost,
      Str_psql \o SchemeSep \o Str_localhost,
      Str_postgresql \o SchemeSep \o Str_localhost,
      Str_smtp \o SchemeSep \o Str_localhost }

\* The addresses run is given when AllTCP is modelled after the parse.
RunAddrs ==
    { Str_localhost,
      Str_localhost \o Colon \o Str_5000,
      Str_http \o SchemeSep \o Str_localhost \o Hash \o Str_500ms }

\* The values of defaultPollFreq, in milliseconds.
PollFreqs == {250, 1000}

SeqsUpTo(S, k) == UNION {[1 .. m -> S] : m \in 0 .. k}

\* run has been called and AllTCP not yet: none of its channels, goroutines
\* or timer exists.
Unconstructed ==
    /\ n = 0
    /\ mode = "run"
    /\ ppc = << >>
    /\ pmsg = << >>
    /\ tick = << >>
    /\ ch = << >>
    /\ chClosed = << >>
    /\ fpc = << >>
    /\ fmsg = << >>
    /\ wg = 0
    /\ mpc = "unset"
    /\ mergedClosed = FALSE
    /\ cpc = "unset"
    /\ cmsg = NoMsg
    /\ timer = "unset"
    /\ cancelled = FALSE
    /\ outClosed = FALSE
    /\ rpc = "unset"
    /\ panicked = FALSE
    /\ emitted = << >>
    /\ dialOk = << >>
    /\ received = << >>
    /\ atFire = [fired |-> FALSE, observed |-> FALSE, st |-> << >>]
    /\ dialErr = << >>
    /\ startOf = << >>
    /\ listenAt = << >>
    /\ emitTime = << >>
    /\ pmsgTime = << >>
    /\ synthTime = NoTime
    /\ chTimes = << >>
    /\ fmsgTimes = << >>
    /\ cmsgTimes = NoTimes
    /\ receivedTimes = << >>

\* run is entered with its arguments.
RunInitWith(addrs, k) ==
    /\ Unconstructed
    /\ exitCode = NoExit
    /\ now = 0
    /\ startTime = NoTime
    /\ rawAddrs \in SeqsUpTo(addrs, k)
    /\ defaultPollFreq \in PollFreqs
    /\ specs = << >>
    /\ parseErr = NoErr
    /\ parseCalls = 0
    /\ runpc = "parse"
    /\ et = 0
    /\ etString = << >>

ParseInit == RunInitWith(ParseAddrs, MaxAddrs)
RunInit == RunInitWith(RunAddrs, MaxTargets)

\* Mutant of runParsed: run goes on to AllTCP whatever ParseTCPSpecs
\* returned.
runParsed_IgnoreErr(r) ==
    /\ specs' = r.specs
    /\ parseErr' = r.err
    /\ parseCalls' = r.calls
    /\ runpc' = "call"
    /\ UNCHANGED exitCode

\* run with r returned by ParseTCPSpecs:
\* if err != nil { fmt.Printf(...); return 1 }
runParsed(r) ==
    /\ specs' = r.specs
    /\ parseErr' = r.err
    /\ parseCalls' = r.calls
    /\ IF r.err # NoErr
       THEN runpc' = "returned" /\ exitCode' = 1
       ELSE runpc' = "call" /\ UNCHANGED exitCode

\* specs, err := wait.ParseTCPSpecs(rawAddrs, defaultPollFreq)
RunParse ==
    /\ runpc = "parse"
    /\ runParsed(ParseTCPSpecs(rawAddrs, defaultPollFreq))
    /\ UNCHANGED << n, mode, ppc, pmsg, tick, ch, chClosed, fpc, fmsg, wg, mpc,
                    mergedClosed, cpc, cmsg, timer, cancelled, outClosed, rpc,
                    panicked, emitted, dialOk, received, atFire,
                    dialErr, clockVars, stampVars, rawAddrs, defaultPollFreq,
                    et, etString >>

\* wait.AllTCP(specs, waitTimeout) up to its return: one prober and one
\* forwarder per spec, merge's closing goroutine, the timer and AllTCP's own
\* goroutine exist and none has taken a step; run is about to receive.
RunAllTCP ==
    /\ runpc = "call"
    /\ runpc' = "wait"
    /\ n' = Len(specs)
    /\ ppc' = [i \in 1 .. Len(specs) |-> "start"]
    /\ pmsg' = [i \in 1 .. Len(specs) |-> NoMsg]
    /\ tick' = [i \in 1 .. Len(specs) |-> FALSE]
    /\ ch' = [i \in 1 .. Len(specs) |-> << >>]
    /\ chClosed' = [i \in 1 .. Len(specs) |-> FALSE]
    /\ fpc' = [i \in 1 .. Len(specs) |-> "recv"]
    /\ fmsg' = [i \in 1 .. Len(specs) |-> NoMsg]
    /\ wg' = Len(specs)
    /\ mpc' = "wait"
    /\ cpc' = "select"
    /\ timer' = "armed"
    /\ rpc' = "recv"
    /\ emitted' = [i \in 1 .. Len(specs) |-> << >>]
    /\ dialOk' = [i \in 1 .. Len(specs) |-> FALSE]
    /\ atFire' = [fired |-> FALSE, observed |-> FALSE,
                  st |-> [i \in 1 .. Len(specs) |-> "pending"]]
    /\ dialErr' = [i \in 1 .. Len(specs) |-> "nil"]
    /\ startTime' = now
    /\ startOf' = [i \in 1 .. Len(specs) |-> StartTimeFromContext(now)]
    /\ listenAt' = [i \in 1 .. Len(specs) |-> 0]
    /\ emitTime' = [i \in 1 .. Len(specs) |-> << >>]
    /\ pmsgTime' = [i \in 1 .. Len(specs) |-> NoTime]
    /\ chTimes' = [i \in 1 .. Len(specs) |-> << >>]
    /\ fmsgTimes' = [i \in 1 .. Len(specs) |-> NoTimes]
    /\ UNCHANGED << cmsgTimes, receivedTimes >>
    /\ UNCHANGED << mode, mergedClosed, cmsg, cancelled, outClosed, exitCode,
                    panicked, received, now, synthTime, rawAddrs,
                    defaultPollFreq, specs, parseErr, parseCalls, et, etString >>

\* The durations fmtElapsedTime is given: those around the limits of its
\* cases and around the points where its rounding turns, those of
\* TestFmtElapsedTime that last less than two seconds, and negative ones.
Durations ==
    ((0 - FmtSpan) .. FmtSpan)
      \cup ((Microsecond - FmtSpan) .. (Microsecond + FmtSpan))
      \cup ((Millisecond - FmtSpan) .. (Millisecond + FmtSpan))
      \cup ((Second - 5 * Microsecond - FmtSpan) .. (Second - 5 * Microsecond + FmtSpan))
      \cup ((Second - FmtSpan) .. (Second + FmtSpan))
      \cup ((Second + 5 * Millisecond - FmtSpan) .. (Second + 5 * Millisecond + FmtSpan))
      \cup { 45, 24313, 759825, 32423 * Microsecond, 0 - 1500 }

\* fmtElapsedTime is entered with its argument.
FmtInit ==
    /\ Unconstructed
    /\ exitCode = NoExit
    /\ now = 0
    /\ startTime = NoTime
    /\ rawAddrs = << >>
    /\ defaultPollFreq = 0
    /\ specs = << >>
    /\ parseErr = NoErr
    /\ parseCalls = 0
    /\ runpc = "fmt"
    /\ et \in Durations
    /\ etString = << >>

\* fmtElapsedTime(et) returns.
FmtReturn ==
    /\ runpc = "fmt"
    /\ etString' = fmtElapsedTime(et)
    /\ runpc' = "fmtReturned"
    /\ UNCHANGED << n, mode, ppc, pmsg, tick, ch, chClosed, fpc, fmsg, wg, mpc,
                    mergedClosed, cpc, cmsg, timer, cancelled, outClosed, rpc,
                    exitCode, panicked, emitted, dialOk, received, atFire,
                    dialErr, clockVars, stampVars, rawAddrs, defaultPollFreq,
                    specs, parseErr, parseCalls, et >>

\* fmtElapsedTime alone, applied to every duration of Durations.
FmtSpec == FmtInit /\ [][FmtReturn]_vars

\* ParseTCPSpecs alone, applied to every list of addresses.
ParseSpec == ParseInit /\ [][RunParse]_vars

RunNext ==
    \/ RunParse
    \/ RunAllTCP
    \/ Next

\* run: the parse, then AllTCP with run as its consumer.
RunSpec == RunInit /\ [][RunNext]_vars

----------------------------------------------------------------------------
\* Views of the histories used by the properties

\* The messages of target i carried by AllTCP's output, in order.
outOf(i) == SelectSeq(received, LAMBDA m : m.spec = i)

statuses(seq) == [k \in 1 .. Len(seq) |-> seq[k].status]

IsPrefix(s, t) == Len(s) <= Len(t) /\ \A k \in 1 .. Len(s) : s[k] = t[k]

IsTerminal(m) == m.status \in {"Ready", "Failed"}

\* The synthetic messages carried by AllTCP's output.
synthetic == SelectSeq(received, LAMBDA m : m.spec = NilSpec)

\* AllTCP's goroutine has returned from its loop.
coordReturned == cpc \in {"closeOut", "cancel", "stop", "done"}

StreamShapes == { << >>, <<"Start">>, <<"Start", "Ready">>, <<"Start", "Failed">> }

----------------------------------------------------------------------------
\* C1 (as stated): when AllTCP's output is closed it has carried, for every
\* requested target, Start followed by exactly one terminal message, plus at
\* most one synthetic message and only after the deadline.
C1_AsStated ==
    outClosed =>
        /\ \A i \in Targets : statuses(outOf(i)) \in { <<"Start", "Ready">>, <<"Start", "Failed">> }
        /\ Len(synthetic) <= 1
        /\ (Len(synthetic) = 1 => timer = "taken")

\* C1 (amended): the output is closed at most once; what it has carried of a
\* target is always a prefix of that target's Start followed by one terminal
\* message; it is complete for every target when the output closes without
\* the synthetic message; there is at most one synthetic message, and only
\* when the timer case was taken.
C1_OutputContent ==
    /\ ~panicked
    /\ \A i \in Targets :
         /\ statuses(outOf(i)) \in StreamShapes
         /\ IsPrefix(statuses(outOf(i)), statuses(emitted[i]))
    /\ Len(synthetic) <= 1
    /\ (Len(synthetic) = 1 => timer = "taken")
    /\ (outClosed /\ Len(synthetic) = 0 =>
          \A i \in Targets : Len(outOf(i)) = 2 /\ IsTerminal(outOf(i)[2]))

C1_Witness ==
    /\ outClosed
    /\ n >= 2
    /\ Len(synthetic) = 0
    /\ \E i \in Targets : outOf(i)[2].status = "Failed"

----------------------------------------------------------------------------
\* C2: the stream of one prober starts with Start, holds Start once, then at
\* most one terminal message (Ready or Failed), nothing is written after the
\* terminal message or to the closed stream, and a closed stream has carried
\* exactly Start and one terminal message.
C2_ProbeStream ==
    \A i \in Targets :
        /\ statuses(emitted[i]) \in StreamShapes
        /\ \A k \in 1 .. Len(emitted[i]) : emitted[i][k].spec = i
        /\ (chClosed[i] => Len(emitted[i]) = 2)
        /\ (ppc[i] \in {"close", "done"} => Len(emitted[i]) = 2)
        /\ ~panicked

C2_Witness ==
    \E i \in Targets :
        /\ chClosed[i]
        /\ statuses(emitted[i]) = <<"Start", "Failed">>
        /\ emitted[i][2].err = CtxErr

----------------------------------------------------------------------------
\* C3: cmd.run returns 0 exactly when AllTCP's output closed having carried
\* Ready for every target and no synthetic message; then a connection attempt
\* succeeded for every target; it returns 1 at the first message that
\* carries an error.
allReadyCarried ==
    /\ \A i \in Targets : statuses(outOf(i)) = <<"Start", "Ready">>
    /\ Len(synthetic) = 0

hasErr(seq) == \E k \in 1 .. Len(seq) : seq[k].err # "nil"

C3_RunExitCode ==
    mode = "run" =>
        /\ (exitCode = 0 => outClosed /\ allReadyCarried /\ \A i \in Targets : dialOk[i])
        /\ (rpc = "done" /\ outClosed /\ allReadyCarried => exitCode = 0)
        /\ (exitCode = 1 <=> hasErr(received))
        /\ (hasErr(received) =>
              /\ rpc = "done"
              /\ received[Len(received)].err # "nil"
              /\ ~hasErr(SubSeq(received, 1, Len(received) - 1)))
        /\ (rpc = "done" <=> exitCode \in {0, 1})

C3_Witness ==
    /\ mode = "run"
    /\ exitCode = 0
    /\ n >= 2

----------------------------------------------------------------------------
\* C4: with a consumer that keeps receiving and under fair scheduling,
\* AllTCP's output is eventually closed, whatever the connection attempts
\* return, also when they fail transiently forever.
C4_OutputEventuallyClosed == (mode = "box") ~> outClosed

C4_Witness ==
    /\ mode = "box"
    /\ outClosed
    /\ n >= 2
    /\ timer = "taken"
    /\ \A i \in Targets : ppc[i] = "select" /\ ~dialOk[i]

----------------------------------------------------------------------------
Last(seq) == seq[Len(seq)]

\* C5 (as stated): on the timer case the cancellation signal is triggered
\* before the synthetic message is appended and before the output is closed.
C5_AsStated ==
    timer = "taken" /\ (Len(synthetic) > 0 \/ outClosed) => cancelled

\* C5 (amended): on the timer case the synthetic message is appended first,
\* then the output is closed, then the cancellation signal is triggered;
\* cancellation never precedes the close of the output.
C5_TimeoutOrder ==
    /\ (cancelled => outClosed)
    /\ (timer = "taken" /\ outClosed =>
          Len(synthetic) = 1 /\ Last(received) = timeoutMsg)

C5_Witness ==
    /\ timer = "taken"
    /\ cancelled
    /\ n >= 1

----------------------------------------------------------------------------
\* C6 (as stated): when the timer fires while some target has no terminal
\* message yet, the output ends with the Failed timeout message, a target
\* pending at that moment contributes exactly its Start, and a target that
\* was Ready contributes exactly Start, Ready.
C6_AsStated ==
    outClosed /\ atFire.fired /\ (\E i \in Targets : atFire.st[i] = "pending") =>
        /\ Len(received) > 0
        /\ Last(received) = timeoutMsg
        /\ \A i \in Targets :
             /\ (atFire.st[i] = "pending" => statuses(outOf(i)) = <<"Start">>)
             /\ (atFire.st[i] = "ready" => statuses(outOf(i)) = <<"Start", "Ready">>)

\* C6 (amended): when AllTCP's goroutine takes the timer case, the Failed
\* timeout message is the last message of the output and nothing of any
\* target is added after the case was taken: a target that has no terminal
\* message by then contributes at most its Start, a target that was Ready
\* contributes a prefix of Start, Ready, and no Failed carrying the
\* cancellation error ever appears on the output.
C6_TimerCase ==
    /\ [](timer = "taken" /\ outClosed => Len(received) > 0 /\ Last(received) = timeoutMsg)
    /\ [](\A k \in 1 .. Len(received) : received[k].err # CtxErr)
    /\ [][\A i \in Targets :
            /\ (timer = "taken" => outOf(i)' = outOf(i))
            /\ (timer = "fired" /\ timer' = "taken" =>
                  /\ (proberStatus(i) = "pending" => statuses(outOf(i)') \in { << >>, <<"Start">> })
                  /\ (proberStatus(i) = "ready" =>
                        IsPrefix(statuses(outOf(i)'), <<"Start", "Ready">>)))]_vars

C6_Witness ==
    /\ outClosed
    /\ timer = "taken"
    /\ \E i \in Targets : statuses(outOf(i)) = <<"Start">> /\ proberStatus(i) = "pending"
    /\ \E j \in Targets : statuses(outOf(j)) = <<"Start", "Ready">>

----------------------------------------------------------------------------
\* C7 (as stated): whenever the timer fires before every target has reached
\* Ready and before the merged stream has been observed closed, the output
\* carries exactly one synthetic message before it closes.
C7_AsStated ==
    /\ outClosed
    /\ atFire.fired
    /\ ~atFire.observed
    /\ (\E i \in Targets : atFire.st[i] # "ready")
    => Len(synthetic) = 1

\* C7 (amended): the output never carries more than one synthetic message;
\* when it closes it carries one exactly if the select of AllTCP's goroutine
\* took the timer case, and that needs the timer to have fired before the
\* merged stream was observed closed.
C7_SyntheticOnce ==
    /\ Len(synthetic) <= 1
    /\ (Len(synthetic) = 1 => timer = "taken" /\ synthetic[1] = timeoutMsg)
    /\ (outClosed => (Len(synthetic) = 1 <=> timer = "taken"))
    /\ (timer = "taken" => atFire.fired /\ ~atFire.observed)

C7_Witness ==
    /\ outClosed
    /\ atFire.fired
    /\ ~atFire.observed
    /\ Len(synthetic) = 1
    /\ n >= 1

----------------------------------------------------------------------------
\* C8: if the merged stream is observed closed before the timer fires, every
\* message of every target has been forwarded to the output, the output is
\* closed without a synthetic message, and the timer is stopped so that no
\* message can come from it afterwards.
closedBeforeFire ==
    /\ coordReturned
    /\ timer # "taken"
    /\ (atFire.fired => atFire.observed)

C8_MergedClosedFirst ==
    closedBeforeFire =>
        /\ \A i \in Targets :
             /\ Len(outOf(i)) = 2
             /\ outOf(i) = [k \in 1 .. Len(emitted[i]) |-> setStringF(emitted[i][k])]
        /\ Len(received) = 2 * n
        /\ Len(synthetic) = 0
        /\ (cpc \in {"cancel", "stop", "done"} => outClosed)
        /\ (cpc = "done" => timer = IF atFire.fired THEN "fired" ELSE "stopped")

C8_Witness ==
    /\ closedBeforeFire
    /\ cpc = "done"
    /\ timer = "stopped"
    /\ n >= 2

----------------------------------------------------------------------------
allReadyEmitted == \A i \in Targets : proberStatus(i) = "ready"

\* C9 (as stated): if every prober has emitted Ready before the timer fires,
\* the output carries exactly Start and Ready for each target and closes
\* without a synthetic message, however slowly the messages are forwarded.
C9_AsStated ==
    /\ outClosed
    /\ n >= 1
    /\ allReadyEmitted
    /\ (atFire.fired => \A i \in Targets : atFire.st[i] = "ready")
    => /\ Len(received) = 2 * n
       /\ \A i \in Targets : statuses(outOf(i)) = <<"Start", "Ready">>
       /\ Len(synthetic) = 0

\* C9 (amended): if every prober has emitted Ready and AllTCP's goroutine
\* does not take the timer case, the output carries exactly Start and Ready
\* for each target (2N messages) and closes without a synthetic message.
C9_AllReady ==
    outClosed /\ allReadyEmitted /\ timer # "taken" =>
        /\ Len(received) = 2 * n
        /\ \A i \in Targets : statuses(outOf(i)) = <<"Start", "Ready">>
        /\ Len(synthetic) = 0

C9_Witness ==
    /\ outClosed
    /\ allReadyEmitted
    /\ n >= 2
    /\ timer = "fired"
    /\ Len(received) = 2 * n

----------------------------------------------------------------------------
\* C10 (as stated): once the cancellation signal has fired, a prober without
\* a terminal message emits Failed with the cancellation error, also in the
\* middle of a connection attempt or with a poll tick ready; it never emits
\* Ready after cancellation.
C10_AsStated ==
    [][\A i \in Targets :
         cancelled =>
            /\ (ppc[i] = "select" => ppc'[i] \in {"select", "send"})
            /\ (pmsg'[i] # pmsg[i] =>
                  pmsg'[i] \in {NoMsg, NewTCPMessageFailed(i, CtxErr)})]_vars

\* C10 (amended): once the cancellation signal has fired, a prober that
\* leaves its select while no poll tick is pending does so with Failed
\* carrying the cancellation error as its terminal message and terminates;
\* a prober never ends without a terminal message.  (A prober in a
\* connection attempt, or with a tick pending, may still emit Ready or a
\* definitive Failed.)
C10_Cancellation ==
    /\ [](\A i \in Targets :
            ppc[i] \in {"close", "done"} =>
                Len(emitted[i]) = 2 /\ IsTerminal(emitted[i][2]))
    /\ [][\A i \in Targets :
            cancelled /\ ppc[i] = "select" /\ ~tick[i] /\ ppc'[i] # "select" =>
                /\ ppc'[i] = "send"
                /\ pmsg'[i] = NewTCPMessageFailed(i, CtxErr)]_vars

C10_Witness ==
    \E i \in Targets :
        /\ cancelled
        /\ ppc[i] = "done"
        /\ ~dialOk[i]
        /\ emitted[i][2] = NewTCPMessageFailed(i, CtxErr)
        /\ fpc[i] = "send"

----------------------------------------------------------------------------
\* Views of merge's output channel

\* The messages `merged` has carried, in order: those AllTCP's goroutine has
\* passed on to `out` and the one it holds for sending.
mergedOut ==
    SelectSeq(received, LAMBDA m : m.spec # NilSpec)
        \o (IF cpc = "send" THEN << cmsg >> ELSE << >>)

mergedOf(i) == SelectSeq(mergedOut, LAMBDA m : m.spec = i)

\* A sequence of messages as AllTCP's goroutine passes them on.
shown(seq) == [k \in 1 .. Len(seq) |-> setStringF(seq[k])]

\* What forwarder i holds between its receive and its send.
inFlight(i) == IF fpc[i] = "send" THEN << fmsg[i] >> ELSE << >>

----------------------------------------------------------------------------
\* C11: merge closes its output only after the forwarder of every input has
\* seen its input closed and drained and has finished, for any number of
\* inputs; with no input the output can be closed at once and carries no
\* message.
C11_MergeClosesLast ==
    /\ (mergedClosed =>
          /\ wg = 0
          /\ \A i \in Targets :
               /\ chClosed[i]
               /\ ch[i] = << >>
               /\ fpc[i] = "done"
               /\ fmsg[i] = NoMsg)
    /\ (n = 0 => wg = 0 /\ mergedOut = << >>)
    /\ wg = Cardinality({i \in Targets : fpc[i] # "done"})
    /\ ~panicked

C11_Witness ==
    /\ mergedClosed
    /\ n >= 2
    /\ Len(mergedOut) = 2 * n

----------------------------------------------------------------------------
\* C12: every message written to an input of merge is, in order, either
\* still in that input, held by its forwarder, or carried once by the
\* output: none is lost, none is duplicated; when the output closes it has
\* carried every one of them; and a prober never waits for room in its
\* channel, whatever the forwarders are blocked on.
C12_MergeDeliversOnce ==
    /\ \A i \in Targets :
         /\ shown(emitted[i]) = shown(mergedOf(i) \o inFlight(i) \o ch[i])
         /\ (ppc[i] \in {"start", "send"} => Len(ch[i]) < ChanCap)
    /\ (mergedClosed => \A i \in Targets : mergedOf(i) = shown(emitted[i]))
    /\ Len(mergedOut) <= 2 * n

C12_Witness ==
    \E i \in Targets : \E j \in Targets :
        /\ i # j
        /\ cpc = "send"
        /\ fpc[j] = "send"
        /\ fpc[i] = "recv"
        /\ ppc[i] = "done"
        /\ Len(ch[i]) = 2

----------------------------------------------------------------------------
\* C13: what merge's output has carried of a target is a prefix of what the
\* target's prober wrote, in the same order, and what AllTCP's output has
\* carried of it is a prefix of that; a terminal message of a target is
\* never carried before its Start.  Across targets any order is possible.
C13_OrderPreserved ==
    \A i \in Targets :
        /\ IsPrefix(mergedOf(i), shown(emitted[i]))
        /\ IsPrefix(outOf(i), mergedOf(i))
        /\ \A k \in 1 .. Len(outOf(i)) :
             IsTerminal(outOf(i)[k]) => k = 2 /\ outOf(i)[1].status = "Start"

C13_Witness ==
    /\ n >= 2
    /\ Len(received) = 4
    /\ statuses(received) = <<"Start", "Start", "Ready", "Failed">>
    /\ received[1].spec = received[4].spec
    /\ received[2].spec = received[3].spec

----------------------------------------------------------------------------
\* Prober i has produced a Failed that carries the cancellation error.
cancelledFailed(i) ==
    \/ pmsg[i].err = CtxErr
    \/ \E k \in 1 .. Len(emitted[i]) : emitted[i][k].err = CtxErr

\* C14: a definitive failure of one target cancels no other prober, and
\* AllTCP's goroutine neither returns, closes its output nor cancels because
\* of it: it returns only on the timer case or when the merged stream is
\* closed, a prober sees the cancellation only after that, and after sending
\* a target's Failed the goroutine is back at its select.
C14_NoFailFast ==
    /\ (coordReturned \/ outClosed \/ cancelled => timer = "taken" \/ mergedClosed)
    /\ \A j \in Targets : cancelledFailed(j) => cancelled /\ timer = "taken"
    /\ (/\ Len(received) > 0
        /\ Last(received).status = "Failed"
        /\ Last(received).spec # NilSpec
        /\ cmsg = NoMsg
        /\ ~mergedClosed
        => cpc = "select" /\ ~outClosed /\ ~cancelled)

C14_Witness ==
    /\ mode = "box"
    /\ Len(received) = 4
    /\ received[3].status = "Failed"
    /\ received[3].err \in DialErrs
    /\ received[4].status = "Ready"
    /\ dialErr[received[3].spec] # "nil"
    /\ ~cancelled

----------------------------------------------------------------------------
\* C15 (as stated): if the consumer stops receiving before AllTCP's output
\* is closed, every prober and merge still terminate once the deadline has
\* passed.
C15_AsStated ==
    (rpc = "done" /\ ~outClosed)
        ~> ((\A i \in Targets : ppc[i] = "done") /\ mergedClosed)

\* The state C15's case ends in: the consumer has returned on a target's
\* Failed, the deadline has passed and AllTCP's goroutine waits in
\* `out <- msg` for a receiver, so that cancel() has not run, a prober is
\* still polling and a forwarder still waits for its input.
C15_Witness ==
    /\ rpc = "done"
    /\ exitCode = 1
    /\ Last(received).spec # NilSpec
    /\ cpc = "sendTimeout"
    /\ timer = "taken"
    /\ ~cancelled
    /\ ~mergedClosed
    /\ \E i \in Targets : ppc[i] = "select" /\ fpc[i] = "recv"

----------------------------------------------------------------------------
\* C16: a connection attempt that fails with its own timeout or with
\* connection refused produces no message: the prober is then in its select
\* loop with nothing to write and only Start written, and no message on any
\* stream carries such an error.
TransientErrs == {"timeout", "refused"}

C16_TransientRetried ==
    /\ \A i \in Targets :
         /\ (ppc[i] \in {"select", "check"} =>
               pmsg[i] = NoMsg /\ statuses(emitted[i]) = <<"Start">>)
         /\ pmsg[i].err \notin TransientErrs
         /\ dialErr[i] \notin TransientErrs
         /\ \A k \in 1 .. Len(emitted[i]) : emitted[i][k].err \notin TransientErrs
    /\ \A k \in 1 .. Len(received) : received[k].err \notin TransientErrs

C16_Witness ==
    \E i \in Targets :
        /\ ppc[i] = "check"
        /\ ~cancelled
        /\ statuses(emitted[i]) = <<"Start">>
        /\ statuses(outOf(i)) = <<"Start">>

----------------------------------------------------------------------------
\* C17: when a connection attempt returns an error that is not transient,
\* the prober writes Failed carrying exactly that error as its terminal
\* message and ends; it is never again at a connection attempt or in its
\* select loop.
C17_DefinitiveFailure ==
    \A i \in Targets :
        /\ (dialErr[i] # "nil" =>
              /\ dialErr[i] \in DialErrs \ TransientErrs
              /\ ~dialOk[i]
              /\ \/ ppc[i] = "send" /\ pmsg[i] = NewTCPMessageFailed(i, dialErr[i])
                 \/ /\ ppc[i] \in {"close", "done"}
                    /\ Len(emitted[i]) = 2
                    /\ emitted[i][2] = NewTCPMessageFailed(i, dialErr[i]))
        /\ (pmsg[i].status = "Failed" /\ pmsg[i].err # CtxErr => pmsg[i].err = dialErr[i])
        /\ \A k \in 1 .. Len(emitted[i]) :
             emitted[i][k].status = "Failed" /\ emitted[i][k].err # CtxErr =>
                 emitted[i][k].err = dialErr[i]

C17_Witness ==
    \E i \in Targets :
        /\ dialErr[i] = "dns"
        /\ ppc[i] = "done"
        /\ tick[i] = FALSE
        /\ chClosed[i]
        /\ \E k \in 1 .. Len(received) : received[k].spec = i /\ received[k].err = "dns"

----------------------------------------------------------------------------
\* C18: AllTCP's output is closed at most once and nothing is sent on it
\* afterwards; it is closed only after the synthetic timeout message was
\* delivered as the last message, or after the merged stream was observed
\* closed, when every target has its terminal message.
C18_OutputClosedOnce ==
    /\ ~panicked
    /\ (outClosed =>
          /\ cpc \in {"cancel", "stop", "done"}
          /\ cmsg = NoMsg
          /\ \/ /\ timer = "taken"
                /\ Len(received) > 0
                /\ Last(received) = timeoutMsg
             \/ /\ timer # "taken"
                /\ mergedClosed
                /\ Len(synthetic) = 0
                /\ \A i \in Targets : proberStatus(i) # "pending")

C18_Witness ==
    /\ outClosed
    /\ cpc = "done"
    /\ mode = "run"
    /\ exitCode = 1
    /\ timer = "taken"
    /\ n >= 2

----------------------------------------------------------------------------
\* C19: only prober i writes to its stream; the stream is closed exactly
\* when the prober has ended, which is the step after it wrote its terminal
\* message; merge's output is closed only when every forwarder has ended;
\* no message is written to a closed stream and no stream is closed twice.
C19_StreamsClosedOnce ==
    /\ ~panicked
    /\ \A i \in Targets :
         /\ (chClosed[i] <=> ppc[i] = "done")
         /\ (ppc[i] \in {"close", "done"} <=> Len(emitted[i]) = 2)
         /\ (Len(emitted[i]) = 2 => IsTerminal(emitted[i][2]))
         /\ (ppc[i] \in {"close", "done"} => pmsg[i] = NoMsg)
         /\ \A k \in 1 .. Len(ch[i]) : ch[i][k].spec = i
         /\ \A k \in 1 .. Len(emitted[i]) : emitted[i][k].spec = i
    /\ (mergedClosed <=> mpc = "done")
    /\ (mergedClosed => \A i \in Targets : fpc[i] = "done")

C19_Witness ==
    /\ n >= 2
    /\ \A i \in Targets : chClosed[i] /\ fpc[i] = "done"
    /\ mergedClosed
    /\ ~outClosed

----------------------------------------------------------------------------
\* Every message that exists: written, queued, held or delivered.
allMsgs ==
    UNION { { pmsg[i], fmsg[i] }
              \cup { ch[i][k] : k \in 1 .. Len(ch[i]) }
              \cup { emitted[i][k] : k \in 1 .. Len(emitted[i]) } : i \in Targets }
        \cup { cmsg }
        \cup { received[k] : k \in 1 .. Len(received) }

\* C20: every message on every stream carries an error exactly if its
\* status is Failed: Start and Ready carry none; a target's Failed, a
\* cancellation Failed and the synthetic timeout Failed carry one.
C20_ErrIffFailed ==
    \A m \in allMsgs :
        /\ m.status \in {"None", "Start", "Ready", "Failed"}
        /\ (m.err # "nil" <=> m.status = "Failed")

C20_Witness ==
    /\ \E k \in 1 .. Len(received) :
         received[k].spec # NilSpec /\ received[k].err \in DialErrs
    /\ \E k \in 1 .. Len(received) : received[k] = timeoutMsg
    /\ \E i \in Targets : Len(emitted[i]) = 2 /\ emitted[i][2].err = CtxErr
    /\ \E k \in 1 .. Len(received) : received[k].status = "Start"

----------------------------------------------------------------------------
\* The messages AllTCP's goroutine has created itself.
coordMade ==
    SelectSeq(received \o (IF cpc = "sendTimeout" THEN << cmsg >> ELSE << >>),
              LAMBDA m : m.spec = NilSpec)

\* C21: a message refers to no target exactly if it is the synthetic
\* timeout message of AllTCP's goroutine: every message a prober wrote, and
\* every message merge or AllTCP's output carries for it, refers to that
\* prober's target; at most one message without a target exists per call.
C21_TargetReference ==
    /\ \A i \in Targets :
         /\ pmsg[i] # NoMsg => pmsg[i].spec = i
         /\ fmsg[i] # NoMsg => fmsg[i].spec = i
         /\ \A k \in 1 .. Len(ch[i]) : ch[i][k].spec = i
         /\ \A k \in 1 .. Len(emitted[i]) : emitted[i][k].spec = i
         /\ IsPrefix(outOf(i), shown(emitted[i]))
    /\ \A m \in allMsgs : m # NoMsg => m.spec \in Targets \cup {NilSpec}
    /\ \A k \in 1 .. Len(coordMade) : coordMade[k] = timeoutMsg
    /\ Len(coordMade) <= 1
    /\ (cpc = "send" => cmsg.spec \in Targets)
    /\ Len(received) = Len(coordMade) - (IF cpc = "sendTimeout" THEN 1 ELSE 0)
                          + Len(SelectSeq(received, LAMBDA m : m.spec \in Targets))

C21_Witness ==
    /\ n >= 2
    /\ Len(synthetic) = 1
    /\ \A i \in Targets : Len(outOf(i)) >= 1
    /\ \E i \in Targets : Len(outOf(i)) = 2

----------------------------------------------------------------------------
\* msg.ElapsedTime(): msg.emitTime.Sub(msg.startTime)
ElapsedTime(emit, start) == emit - start

\* C22: every message of one AllTCP call carries the startTime AllTCP took
\* before it started any prober, and its emitTime is not before that
\* startTime: no elapsed time is negative.  Within a prober's stream the
\* emitTimes do not decrease.
C22_SharedStartTime ==
    /\ startTime <= now
    /\ \A i \in Targets :
         /\ startOf[i] = startTime
         /\ Len(emitTime[i]) = Len(emitted[i])
         /\ \A k \in 1 .. Len(emitTime[i]) :
              /\ ElapsedTime(emitTime[i][k], startOf[i]) >= 0
              /\ emitTime[i][k] <= now
              /\ (k > 1 => emitTime[i][k - 1] <= emitTime[i][k])
         /\ (pmsg[i] # NoMsg <=> pmsgTime[i] # NoTime)
         /\ (pmsgTime[i] # NoTime => ElapsedTime(pmsgTime[i], startOf[i]) >= 0)
    /\ (synthTime # NoTime <=> timer = "taken")
    /\ (synthTime # NoTime => ElapsedTime(synthTime, startTime) >= 0)

C22_Witness ==
    /\ n >= 1
    /\ Len(synthetic) = 1
    /\ synthTime > startTime
    /\ \E i \in Targets :
         /\ Len(emitTime[i]) = 2
         /\ emitTime[i][1] < emitTime[i][2]
         /\ emitTime[i][2] < synthTime

----------------------------------------------------------------------------
\* C23 (as stated): a target whose listener becomes reachable before the
\* global timeout (and none of whose attempts failed definitively) has, when
\* its prober has ended, exactly the messages Start and Ready, and the
\* Ready's elapsed time is below the timeout.
C23_AsStated ==
    \A i \in Targets :
        /\ listenAt[i] # Never
        /\ listenAt[i] < startTime + WaitTimeout
        /\ dialErr[i] = "nil"
        /\ ppc[i] = "done"
        => /\ statuses(emitted[i]) = <<"Start", "Ready">>
           /\ ElapsedTime(emitTime[i][2], startOf[i]) < WaitTimeout

\* C23 (amended): a target for which a connection attempt succeeds has,
\* when its prober has ended, exactly the messages Start and Ready; a Ready
\* exists only if the listener was reachable when it was created, and its
\* elapsed time is not negative.  (The elapsed time is below the timeout
\* only if the successful attempt is made before the deadline.)
C23_ReadyStream ==
    \A i \in Targets :
        /\ (dialOk[i] /\ ppc[i] \in {"close", "done"} =>
              statuses(emitted[i]) = <<"Start", "Ready">>)
        /\ (pmsg[i].status = "Ready" =>
              /\ dialOk[i]
              /\ listenAt[i] # Never
              /\ pmsgTime[i] >= listenAt[i])
        /\ \A k \in 1 .. Len(emitted[i]) :
             emitted[i][k].status = "Ready" =>
                 /\ k = 2
                 /\ dialOk[i]
                 /\ listenAt[i] # Never
                 /\ emitTime[i][k] >= listenAt[i]
                 /\ ElapsedTime(emitTime[i][k], startOf[i]) >= 0

C23_Witness ==
    \E i \in Targets :
        /\ ppc[i] = "done"
        /\ listenAt[i] = 1
        /\ statuses(emitted[i]) = <<"Start", "Ready">>
        /\ emitTime[i][1] = 0
        /\ ElapsedTime(emitTime[i][2], startOf[i]) = 1
        /\ timer = "armed"

----------------------------------------------------------------------------
\* C24: a Failed that carries the cancellation error is created only after
\* the timer case was taken, so its elapsed time is at least the timeout; a
\* Failed of a target with a smaller elapsed time carries a definitive
\* connect error; the prober of a target whose attempts only fail
\* transiently ends with Start and that cancellation Failed.
C24_CancelledFailure ==
    \A i \in Targets :
        /\ (pmsg[i].err = CtxErr =>
              /\ timer = "taken"
              /\ cancelled
              /\ ElapsedTime(pmsgTime[i], startOf[i]) >= WaitTimeout)
        /\ \A k \in 1 .. Len(emitted[i]) :
             /\ (emitted[i][k].err = CtxErr =>
                   /\ k = 2
                   /\ timer = "taken"
                   /\ ElapsedTime(emitTime[i][k], startOf[i]) >= WaitTimeout)
             /\ (emitted[i][k].status = "Failed"
                   /\ ElapsedTime(emitTime[i][k], startOf[i]) < WaitTimeout
                   => emitted[i][k].err \in DialErrs \ TransientErrs)
        /\ (~dialOk[i] /\ dialErr[i] = "nil" /\ ppc[i] \in {"close", "done"} =>
              /\ statuses(emitted[i]) = <<"Start", "Failed">>
              /\ emitted[i][2].err = CtxErr)

C24_Witness ==
    \E i \in Targets :
        /\ listenAt[i] = Never
        /\ ppc[i] = "done"
        /\ emitted[i][2].err = CtxErr
        /\ ElapsedTime(emitTime[i][2], startOf[i]) = WaitTimeout
        /\ synthTime = emitTime[i][2]

----------------------------------------------------------------------------
\* Views of run's parse used by the properties

\* ParseTCPSpec has been called on rawAddrs[i]; that call returned an error.
parsedAt(i) == runpc # "parse" /\ i \in 1 .. parseCalls
failedAt(i) == runpc = "returned" /\ parseErr # NoErr /\ parseCalls = i

\* The parts of an address: scheme, host segment and '#' suffix.
schemeOf(a) == addrPattern(a).proto
hostSegment(a) == addrPattern(a).host
suffixOf(a) == addrPattern(a).freq
embeddedPort(a) == ContainsRune(hostSegment(a), ":")

\* The errors of a malformed duration.
DurationErrs == {"time: invalid duration", "time: missing unit in duration",
                 "time: unknown unit in duration"}

\* AllTCP has been called.
constructed == cpc # "unset" \/ mpc # "unset" \/ timer # "unset" \/ rpc # "unset"

----------------------------------------------------------------------------
\* C25: when ParseTCPSpecs returns an error, run returns 1 at once: AllTCP is
\* never called, so no prober exists, no connection is attempted and no
\* message is on any channel; AllTCP is called only with every address
\* parsed.
C25_ParseFailureAborts ==
    /\ (parseErr # NoErr =>
          /\ runpc = "returned"
          /\ exitCode = 1
          /\ specs = << >>
          /\ Unconstructed)
    /\ (constructed =>
          /\ parseErr = NoErr
          /\ runpc = "wait"
          /\ n = Len(rawAddrs)
          /\ Len(specs) = Len(rawAddrs))

C25_Witness ==
    /\ runpc = "returned"
    /\ parseErr # NoErr
    /\ Len(rawAddrs) = 2
    /\ parseCalls = 2
    /\ rawAddrs[1] = Str_localhost \o Colon \o Str_5000
    /\ ~constructed

----------------------------------------------------------------------------
\* C26 (as stated): ParseTCPSpecs parses the addresses in order and stops at
\* the first that fails; on failure it returns the empty list and an error
\* that names the position of the failing address ("address 1: ..." for the
\* second); on success it returns one spec per address.
C26_AsStated ==
    runpc # "parse" =>
        /\ parseCalls <= Len(rawAddrs)
        /\ \A j \in 1 .. (parseCalls - 1) :
             ParseTCPSpec(rawAddrs[j], defaultPollFreq).err = NoErr
        /\ (parseErr = NoErr =>
              /\ parseCalls = Len(rawAddrs)
              /\ Len(specs) = Len(rawAddrs)
              /\ \A j \in 1 .. Len(rawAddrs) :
                   specs[j] = ParseTCPSpec(rawAddrs[j], defaultPollFreq).spec)
        /\ (parseErr # NoErr =>
              /\ specs = << >>
              /\ parseCalls >= 1
              /\ ParseTCPSpec(rawAddrs[parseCalls], defaultPollFreq).err # NoErr
              /\ parseErr.kind = "address"
              /\ parseErr.arg = << parseCalls - 1 >>)

C26_Witness ==
    /\ runpc = "returned"
    /\ rawAddrs = << Str_localhost \o Colon \o Str_5000, Str_localhost >>
    /\ specs = << >>
    /\ parseCalls = 2
    /\ parseErr = ParseError("neither port nor protocol is given", << >>)

----------------------------------------------------------------------------
\* C27 (as stated): an address without an embedded port never parses to a
\* spec with an empty port: with no scheme at all (the empty string and a
\* bare '#' suffix included) the parse fails with the missing-port error,
\* with a scheme that is not in the table it fails with the unknown-protocol
\* error naming that scheme.
C27_AsStated ==
    \A i \in 1 .. Len(rawAddrs) :
        parsedAt(i) /\ ~embeddedPort(rawAddrs[i]) =>
            /\ (runpc = "call" => specs[i].Port # << >>)
            /\ (schemeOf(rawAddrs[i]) = << >> =>
                  /\ failedAt(i)
                  /\ parseErr.kind = "neither port nor protocol is given")
            /\ (/\ schemeOf(rawAddrs[i]) # << >>
                /\ ToLower(schemeOf(rawAddrs[i])) \notin DOMAIN protoPort
                => /\ failedAt(i)
                   /\ parseErr.kind = "port not given and protocol is unknown"
                   /\ parseErr.arg = schemeOf(rawAddrs[i]))

C27_Witness ==
    /\ runpc = "call"
    /\ rawAddrs = << Hash \o Str_3s >>
    /\ parseErr = NoErr
    /\ specs = << [Host |-> << >>, Port |-> << >>, PollFreq |-> defaultPollFreq] >>

----------------------------------------------------------------------------
\* For every address that was parsed, has no embedded port and has a scheme
\* of the table (in any case of letters): the parse fails only for a
\* malformed duration, and the spec has the table's port and the host
\* segment as its host.
defaultPortsHold(table) ==
    \A i \in 1 .. Len(rawAddrs) :
        /\ parsedAt(i)
        /\ ~embeddedPort(rawAddrs[i])
        /\ ToLower(schemeOf(rawAddrs[i])) \in DOMAIN table
        => /\ (failedAt(i) => parseErr.kind \in DurationErrs)
           /\ (runpc = "call" =>
                 /\ specs[i].Port = table[ToLower(schemeOf(rawAddrs[i]))]
                 /\ specs[i].Host = hostSegment(rawAddrs[i]))

\* C28 (as stated): the default ports are amqp 5672, amqps 5671, http 80,
\* https 443, imap 143, mysql 3306, ldap 389, ldaps 636, postgresql 5432,
\* smtp 25.
C28_AsStated ==
    defaultPortsHold(
        (Str_amqp :> Str_5672) @@ (Str_amqps :> Str_5671) @@ (Str_http :> Str_80) @@
        (Str_https :> Str_443) @@ (Str_imap :> Str_143) @@ (Str_mysql :> Str_3306) @@
        (Str_ldap :> Str_389) @@ (Str_ldaps :> Str_636) @@
        (Str_postgresql :> Str_5432) @@ (Str_smtp :> Str_25))

\* C28 (amended): the default ports are amqp 5672, amqps 5671, http 80,
\* https 443, imap 143, mysql 3306, ldap 389, ldaps 636, psql 5432, smtp 25;
\* postgresql is not a scheme of the table.
C28_DefaultPorts ==
    /\ defaultPortsHold(
          (Str_amqp :> Str_5672) @@ (Str_amqps :> Str_5671) @@ (Str_http :> Str_80) @@
          (Str_https :> Str_443) @@ (Str_imap :> Str_143) @@ (Str_mysql :> Str_3306) @@
          (Str_ldap :> Str_389) @@ (Str_ldaps :> Str_636) @@
          (Str_psql :> Str_5432) @@ (Str_smtp :> Str_25))
    /\ \A i \in 1 .. Len(rawAddrs) :
         parsedAt(i) /\ rawAddrs[i] = Str_postgresql \o SchemeSep \o Str_localhost
         => /\ failedAt(i)
            /\ parseErr = ParseError("port not given and protocol is unknown",
                                     Str_postgresql)

C28_Witness ==
    /\ runpc = "call"
    /\ rawAddrs = << Str_psql \o SchemeSep \o Str_localhost,
                     Str_amqps \o SchemeSep \o Str_localhost \o Hash \o Str_500ms >>
    /\ specs[1].Port = Str_5432
    /\ specs[2].Port = Str_5671

----------------------------------------------------------------------------
\* C29: for every parsed address whose host segment has exactly one ':',
\* whatever its scheme (none, one of the table, any other): the parse fails
\* only for a malformed duration, and the spec has the text after the ':' as
\* its port and the text before it as its host.
C29_EmbeddedPort ==
    \A i \in 1 .. Len(rawAddrs) :
        LET h == hostSegment(rawAddrs[i])
            colons == {k \in 1 .. Len(h) : h[k] = ":"}
        IN  parsedAt(i) /\ Cardinality(colons) = 1 =>
                /\ (failedAt(i) => parseErr.kind \in DurationErrs)
                /\ (runpc = "call" =>
                      \A k \in colons :
                          /\ specs[i].Host = SubSeq(h, 1, k - 1)
                          /\ specs[i].Port = SubSeq(h, k + 1, Len(h)))

C29_Witness ==
    /\ runpc = "call"
    /\ rawAddrs = << Str_http \o SchemeSep \o Str_localhost \o Colon \o Str_3000,
                     Str_foo \o SchemeSep \o Str_localhost \o Colon \o Str_3000 >>
    /\ \A i \in 1 .. 2 : specs[i].Host = Str_localhost /\ specs[i].Port = Str_3000

----------------------------------------------------------------------------
\* C30: a parsed address with the suffix #3s, #500ms or #2s gets that poll
\* frequency whatever the default is, an address without suffix gets the
\* default (also when another address of the list has a suffix), and an
\* address with any other suffix makes the parse fail.
C30_PollFreq ==
    \A i \in 1 .. Len(rawAddrs) :
        LET f == suffixOf(rawAddrs[i])
            durations == (Str_3s :> 3000) @@ (Str_500ms :> 500) @@ (Str_2s :> 2000)
        IN  parsedAt(i) =>
                /\ (f # << >> /\ f \notin DOMAIN durations => failedAt(i))
                /\ (runpc = "call" =>
                      specs[i].PollFreq = IF f \in DOMAIN durations
                                          THEN durations[f]
                                          ELSE defaultPollFreq)

C30_Witness ==
    /\ runpc = "call"
    /\ defaultPollFreq = 1000
    /\ rawAddrs = << Str_http \o SchemeSep \o Str_localhost \o Hash \o Str_500ms,
                     Str_localhost \o Colon \o Str_5000 >>
    /\ specs[1].PollFreq = 500
    /\ specs[2].PollFreq = 1000

----------------------------------------------------------------------------
----------------------------------------------------------------------------
\* C33 (as stated): once AllTCP's output is closed, every prober, every
\* forwarder of merge and merge's closing goroutine eventually end.
C33_AsStated ==
    outClosed ~> (/\ \A i \in Targets : ppc[i] = "done" /\ fpc[i] = "done"
                  /\ mpc = "done")

\* The state C33's case ends in on the deadline path, with a consumer that
\* received everything: AllTCP's goroutine has returned, the prober has
\* written its cancellation Failed and ended, and its forwarder waits in
\* `merged <- msg` for a receiver that no longer exists.
C33_Witness ==
    /\ mode = "box"
    /\ rpc = "done"
    /\ outClosed
    /\ cpc = "done"
    /\ timer = "taken"
    /\ cancelled
    /\ mpc = "wait"
    /\ ~mergedClosed
    /\ \E i \in Targets :
         /\ ppc[i] = "done"
         /\ fpc[i] = "send"
         /\ fmsg[i].err = CtxErr

----------------------------------------------------------------------------
\* C34: a prober writes at most two messages and its channel never holds
\* more than its capacity of 2, so whenever a prober is about to write (its
\* Start, or its terminal message) the channel has room: the write does not
\* wait for the forwarder, for AllTCP's goroutine or for the consumer.
C34_ProberNeverBlocks ==
    \A i \in Targets :
        /\ Len(emitted[i]) <= 2
        /\ Len(ch[i]) <= ChanCap
        /\ Len(ch[i]) <= Len(emitted[i])
        /\ (ppc[i] = "start" => Len(ch[i]) = 0 /\ ENABLED ProberStart(i))
        /\ (ppc[i] = "send" => Len(ch[i]) < ChanCap /\ ENABLED ProberSend(i))

C34_Witness ==
    \E i \in Targets :
        /\ ppc[i] = "done"
        /\ Len(ch[i]) = ChanCap
        /\ fpc[i] = "recv"
        /\ cpc = "select"
        /\ received = << >>

----------------------------------------------------------------------------
\* C35: a prober writes Start before its first connection attempt and makes
\* that attempt without receiving from the poll ticker; it enters the select
\* (where a tick is awaited) only from an attempt for which checkConn
\* returned nil, a transient failure, and a tick is received only there
\* (the deferred pollTicker.Stop discards a pending tick, it receives none).
C35_StartThenImmediateAttempt ==
    [][\A i \in Targets :
         /\ (ppc[i] = "firstCheck" /\ ppc'[i] # "firstCheck" =>
                /\ emitted[i] = << NewTCPMessageStart(i) >>
                /\ ~tick[i] /\ ~tick'[i])
         /\ (ppc[i] # "select" /\ ppc'[i] = "select" =>
                /\ ppc[i] \in {"firstCheck", "check"}
                /\ pmsg'[i] = NoMsg
                /\ ~dialOk'[i]
                /\ dialErr'[i] = dialErr[i])
         /\ (tick[i] /\ ~tick'[i] /\ ppc'[i] # "done" =>
                ppc[i] = "select" /\ ppc'[i] = "check" /\ pmsg[i] = NoMsg)
         /\ (ppc'[i] = "check" => ppc[i] \in {"select", "check"})
      ]_vars

\* After a transient first attempt a tick was received and the second
\* attempt is about to be made.
C35_Witness ==
    \E i \in Targets :
        /\ ppc[i] = "check"
        /\ ~tick[i]
        /\ pmsg[i] = NoMsg
        /\ emitted[i] = << NewTCPMessageStart(i) >>
        /\ ~cancelled

----------------------------------------------------------------------------
\* C36: merge's wait-group counter is the number of inputs whose forwarder
\* has not called wg.Done(): it starts at len(chs), a forwarder that has
\* left its range loop has seen its input closed and empty and has handed
\* on every message of it, the counter is never negative, and `merged` is
\* closed only when the counter is 0.
C36_OpenInputCounter ==
    /\ wg = Cardinality({ i \in Targets : fpc[i] # "done" })
    /\ wg \in 0 .. n
    /\ \A i \in Targets :
          fpc[i] \in {"exit", "done"} =>
              /\ chClosed[i]
              /\ ch[i] = << >>
              /\ Len(emitted[i]) = 2
              /\ mergedOf(i) = shown(emitted[i])
    /\ (mergedClosed => wg = 0)
    /\ (mpc = "done" <=> mergedClosed)

\* Of two forwarders one has finished and the other has not: the counter is
\* 1 and `merged` is open.
C36_Witness ==
    /\ n = 2
    /\ wg = 1
    /\ fpc[1] = "done"
    /\ fpc[2] = "recv"
    /\ ~chClosed[2]
    /\ ~mergedClosed

----------------------------------------------------------------------------
\* C37: of the messages AllTCP's output has carried at most one is made by
\* AllTCP's goroutine, the synthetic timeout message; every other one is a
\* message its prober emitted, each at most once and in the prober's order,
\* with the status, spec, error, startTime and emitTime the prober gave it:
\* only stringF differs.
C37_CoordinatorFrame ==
    /\ Len(synthetic) <= 1
    /\ \A i \in Targets : IsPrefix(outOf(i), shown(emitted[i]))
    /\ Len(receivedTimes) = Len(received)
    /\ \A k \in 1 .. Len(received) :
          IF received[k].spec = NilSpec
            THEN /\ received[k] = timeoutMsg
                 /\ receivedTimes[k] = Times(startTime, synthTime)
            ELSE /\ received[k].spec \in Targets
                 /\ \E j \in 1 .. Len(emitted[received[k].spec]) :
                       /\ [received[k] EXCEPT !.stringF = "default"]
                              = emitted[received[k].spec][j]
                       /\ receivedTimes[k] =
                              Times(startOf[received[k].spec],
                                    emitTime[received[k].spec][j])

\* The output has carried a prober's Start, emitted at time 0 and with its
\* formatter set, and then the synthetic message, made at the deadline.
C37_Witness ==
    /\ Len(received) = 2
    /\ received[1].status = "Start"
    /\ received[1].stringF = "start"
    /\ receivedTimes[1].emitTime = 0
    /\ received[2] = timeoutMsg
    /\ receivedTimes[2].emitTime = WaitTimeout

----------------------------------------------------------------------------
\* C38: no order is imposed between targets.  Whenever the forwarders of two
\* targets are both sending, AllTCP's goroutine can receive from either,
\* whatever the emitTime of the two messages; and a prober's write never
\* waits for another target.
C38_NoCrossTargetOrder ==
    \A i \in Targets : \A j \in Targets \ {i} :
        /\ (fpc[i] = "send" /\ fpc[j] = "send" /\ cpc = "select" =>
               ENABLED CoordRecv(i) /\ ENABLED CoordRecv(j))
        /\ (ppc[i] = "start" => ENABLED ProberStart(i))
        /\ (ppc[i] = "send" => ENABLED ProberSend(i))
        /\ (fpc[i] = "recv" /\ ch[i] # << >> => ENABLED ForwardRecv(i))

\* The output has carried both messages of target 2 and then the Start of
\* target 1, which was emitted before either of them: the output is not
\* sorted by emitTime.
C38_Witness ==
    /\ Len(received) >= 3
    /\ received[1] = setStringF(NewTCPMessageStart(2))
    /\ received[2] = setStringF(NewTCPMessageReady(2))
    /\ received[3] = setStringF(NewTCPMessageStart(1))
    /\ receivedTimes[3].emitTime < receivedTimes[1].emitTime
    /\ receivedTimes[3].emitTime < receivedTimes[2].emitTime

----------------------------------------------------------------------------
\* The digits after the decimal point of a duration's text.
fracDigits(str) ==
    IF \E k \in 1 .. Len(str) : str[k] = "."
      THEN LET dot == CHOOSE k \in 1 .. Len(str) : str[k] = "."
           IN Cardinality({ k \in dot + 1 .. Len(str) : str[k] \in Digits })
      ELSE 0

\* The multiple of div nearest to d, the upper one of two equally near.
nearestHalfUp(d, div) ==
    CHOOSE m \in { q * div : q \in (d \div div) .. (d \div div) + 1 } :
        /\ m % div = 0
        /\ 2 * m - div <= 2 * d
        /\ 2 * d < 2 * m + div

\* C39: fmtElapsedTime returns the text of its argument when that is below
\* 1 microsecond; otherwise the text of the argument rounded half-up to a
\* multiple of 10ns (below 1ms), of 10 microseconds (below 1s) or of 10ms
\* (from 1s on), which has at most two digits after the point; 999995ns
\* gives "1ms" and 999994ns gives "999.99us" (with the micro sign).
C39_FmtElapsedTime ==
    runpc = "fmtReturned" =>
        /\ (et < Microsecond => etString = String(et))
        /\ (et >= Microsecond =>
               /\ etString =
                    String(nearestHalfUp(et,
                             IF et < Millisecond THEN 10
                             ELSE IF et < Second THEN 10 * 1000
                             ELSE 10 * 1000 * 1000))
               /\ fracDigits(etString) <= 2)
        /\ (et = 999995 => etString = << "1", "m", "s" >>)
        /\ (et = 999994 =>
               etString = << "9", "9", "9", ".", "9", "9", Micro, "s" >>)
        /\ (et = 24313 => etString = << "2", "4", ".", "3", "1", Micro, "s" >>)
        /\ (et = 759825 =>
               etString = << "7", "5", "9", ".", "8", "3", Micro, "s" >>)
        /\ (et = 32423 * Microsecond =>
               etString = << "3", "2", ".", "4", "2", "m", "s" >>)
        /\ (et = 45 => etString = << "4", "5", "n", "s" >>)
        /\ (et = 0 => etString = << "0", "s" >>)

\* fmtElapsedTime has returned "1ms" for 999995ns.
C39_Witness ==
    /\ runpc = "fmtReturned"
    /\ et = 999995
    /\ etString = << "1", "m", "s" >>

====
